---------------------------- MODULE Spec2Model ----------------------------
(***************************************************************************)
(* Model of the season normalisation and multi-season aggregation engine   *)
(* of the fantasy-league dashboard:                                         *)
(*   services/espn_dashboard.py  (fetcher, normaliser, identity resolver)  *)
(*   config/team_map.py          (identity tables)                         *)
(*   services/analytics.py       (historical aggregator)                   *)
(*                                                                         *)
(* Python values are modelled as follows.  A dict is a TLA+ function whose *)
(* domain is the set of keys that are present; a JSON value that may or    *)
(* may not be a dict is wrapped as JObj(d) or JOther.  A Python exception  *)
(* is an outcome record with raised = TRUE.  Strings are TLA+ strings.     *)
(***************************************************************************)
EXTENDS Integers, Sequences, FiniteSets, TLC

VARIABLES
    CURRENT_SEASON,   \* config["CURRENT_SEASON"] of the service instance
    pc,               \* position of the fetch pipeline
    season,           \* loop variable of get_historical_data / argument of get_season_data
    view,             \* params["view"] of the running _make_request call
    host_i,           \* index in api_hosts of the next host of the running call
    last_error,       \* local last_error of the running _make_request call
    contacted,        \* hosts requests.get was called on by the running call, in order
    answers,          \* what each contacted host answered, in the same order
    mr_result,        \* outcome of the last finished _make_request call
    team_data,        \* local team_data of get_season_data
    historical_data,  \* local historical_data of get_historical_data
    partial_info,     \* season_info as it stood when get_season_data last left its try block
    norm_in,          \* normaliser harness: the two raw views handed to get_season_data
    norm_out,         \* normaliser harness: the record get_season_data returned
    res_in,           \* resolver harness: the lookup called and its argument
    res_out,          \* resolver harness: outcome of the lookup
    h2h_data,         \* head-to-head harness: the season collection (cached historical data)
    h2h_phase,        \* head-to-head harness: "build" or "done"
    h2h_out,          \* head-to-head harness: result of get_head_to_head_stats
    svc_data,         \* report services: _cached_historical_data (Idle while None)
    svc_call,         \* report services: the operation last called, with its arguments
    svc_out,          \* report services: what that operation returned
    svc_fetches,      \* memoization harness: get_historical_data calls since the cache was last None
    set_order,        \* the order in which this process iterates a set of owner names
    threads           \* request threads inside _get_historical_data / clear_cache

vars == <<CURRENT_SEASON, pc, season, view, host_i, last_error, contacted, answers,
          mr_result, team_data, historical_data, partial_info,
          norm_in, norm_out, res_in, res_out, h2h_data, h2h_phase, h2h_out,
          svc_data, svc_call, svc_out, svc_fetches, set_order, threads>>

pipelineVars == <<CURRENT_SEASON, pc, season, view, host_i, last_error, contacted,
                  answers, mr_result, team_data, historical_data, partial_info>>
normVars == <<norm_in, norm_out>>
resVars == <<res_in, res_out>>
h2hVars == <<h2h_data, h2h_phase, h2h_out>>
svcVars == <<svc_data, svc_call, svc_out>>
procVars == <<svc_fetches, set_order, threads>>

---------------------------------------------------------------------------
(* Python helpers *)

None == [t |-> "none"]
PyStr(s) == [t |-> "str", s |-> s]
PyInt(n) == [t |-> "int", n |-> n]
PyDict(d) == [t |-> "dict", d |-> d]

JObj(d) == [t |-> "obj", d |-> d]
JOther == [t |-> "other"]

EmptyDict == [k \in {} |-> 0]

\* dict.get(key, default)
PyGet(d, key, default) == IF key \in DOMAIN d THEN d[key] ELSE default

Min(a, b) == IF a < b THEN a ELSE b

Ok(v) == [raised |-> FALSE, value |-> v]
Raise(e) == [raised |-> TRUE, error |-> e]


---------------------------------------------------------------------------
(* config/team_map.py: the identity tables *)

TEAM_ID_MAP ==
    (1 :> "seahawks") @@ (2 :> "numbnuts") @@ (3 :> "stamford") @@ (4 :> "cmb3dan") @@
    (5 :> "devonta") @@ (6 :> "bumcrumbs") @@ (7 :> "mitchell") @@ (8 :> "metzler") @@
    (9 :> "kenney") @@ (10 :> "mahoms")

OWNER_UUID_MAP ==
    ("{AF006F6B-9B81-4A84-B095-9071460336CF}" :> "Dan Costa") @@
    ("{8C478935-D2DF-4937-BB1D-218E38E699A7}" :> "Greg Costa") @@
    ("{8265642-4B76-4353-961E-565FC38C63DB}" :> "Scott Mackie") @@
    ("{145F0780-1FAE-4E55-8715-C78F7553A8F1}" :> "Dan S") @@
    ("{39A92573-7DF4-4244-90DA-BFCDDB2973BB}" :> "Joe Costa") @@
    ("{B073C55B-C009-46F0-95AA-0B20D243D8CA}" :> "Phat Johnson") @@
    ("{4C1E58FF-3F1C-4091-9034-3918B5BA5031}" :> "Timothy Mitchell") @@
    ("{EBF01626-4DE0-405A-B016-264DE0205AE1}" :> "Andrew Flaherty")

TEAM_TO_OWNER_MAP ==
    [seahawks |-> "Dan Costa", numbnuts |-> "Greg Costa", stamford |-> "Scott Mackie",
     cmb3dan |-> "Dan S", devonta |-> "Joe Costa", bumcrumbs |-> "Phat Johnson",
     mitchell |-> "Timothy Mitchell", metzler |-> "Andrew Flaherty",
     kenney |-> "Brian Kenney", mahoms |-> "Connor Flaherty"]

---------------------------------------------------------------------------
(* services/espn_dashboard.py: the identity resolver *)

\* Looking a key up in a dict hashes it first; a dict is unhashable (TypeError).
Hashable(x) == x.t # "dict"

\* TEAM_ID_MAP.get(team_id); the keys of the table are integers.
TeamIdMapGet(team_id) ==
    IF ~Hashable(team_id) THEN Raise("TypeError: unhashable type: 'dict'")
    ELSE IF team_id.t = "int" /\ team_id.n \in DOMAIN TEAM_ID_MAP
         THEN Ok(PyStr(TEAM_ID_MAP[team_id.n]))
         ELSE Ok(None)

\* _map_team_to_owner(team_id)
_map_team_to_owner(team_id) ==
    LET team_key == TeamIdMapGet(team_id) IN
    IF team_key.raised THEN team_key
    ELSE IF team_key.value # None /\ team_key.value.s # ""
         THEN Ok(PyGet(TEAM_TO_OWNER_MAP, team_key.value.s, "Unknown Owner"))
         ELSE Ok("Unknown Owner")

startswith(s, c) == Len(s) >= 1 /\ SubSeq(s, 1, 1) = c
endswith(s, c) == Len(s) >= 1 /\ SubSeq(s, Len(s), Len(s)) = c

\* _get_owner_name(owner_data)
_get_owner_name(owner_data) ==
    IF owner_data.t = "str" THEN
        LET s == owner_data.s IN
        IF s \in DOMAIN OWNER_UUID_MAP /\ OWNER_UUID_MAP[s] # ""
        THEN Ok(OWNER_UUID_MAP[s])
        ELSE IF startswith(s, "{") /\ endswith(s, "}")
             THEN Ok("Owner " \o SubSeq(s, 1, Min(8, Len(s))) \o "...")
             ELSE Ok(s)
    ELSE IF owner_data.t = "dict" THEN
        Ok(PyGet(owner_data.d, "displayName", PyGet(owner_data.d, "firstName", "Unknown")))
    ELSE Ok("Unknown Owner")

---------------------------------------------------------------------------
(* services/espn_dashboard.py: the season normaliser *)

RECURSIVE lstrip(_), rstrip(_)
lstrip(s) == IF startswith(s, " ") THEN lstrip(SubSeq(s, 2, Len(s))) ELSE s
rstrip(s) == IF endswith(s, " ") THEN rstrip(SubSeq(s, 1, Len(s) - 1)) ELSE s
\* str.strip()
strip(s) == rstrip(lstrip(s))

\* _get_team_name(team_data); the argument is a JSON value
_get_team_name(team_json) ==
    IF team_json.t = "obj" THEN
        LET d == team_json.d
            name == PyGet(d, "name", "")
            full == strip(PyGet(d, "location", "") \o " " \o PyGet(d, "nickname", ""))
            ident == IF "id" \in DOMAIN d THEN ToString(d["id"]) ELSE "Unknown"
        IN  IF name # "" THEN name
            ELSE IF full # "" THEN full
            ELSE "Team " \o ident
    ELSE "Unknown Team"

\* dict.get(key) of an integer field of a raw JSON object: the integer, or None
GetInt(d, key) == IF key \in DOMAIN d THEN PyInt(d[key]) ELSE None

\* Python truthiness of an integer-or-None value (`if team:`)
Truthy(x) == x.t = "int" /\ x.n # 0

AttributeError == "AttributeError: object has no attribute 'get'"

\* The loop `for team in teams:` (lines 188-198): the team_info list built, and
\* whether the loop was left by an exception (with the list as built so far).
RECURSIVE ProcessTeams(_, _)
ProcessTeams(teams, built) ==
    IF teams = <<>> THEN [raised |-> FALSE, built |-> built]
    ELSE
        LET team == Head(teams) IN
        IF team.t # "obj" THEN [raised |-> TRUE, built |-> built, error |-> AttributeError]
        ELSE
            LET team_id == GetInt(team.d, "id")
                owner == _map_team_to_owner(team_id)
            IN  IF owner.raised
                THEN [raised |-> TRUE, built |-> built, error |-> owner.error]
                ELSE ProcessTeams(Tail(teams), Append(built,
                        [id |-> team_id,
                         name |-> _get_team_name(team),
                         owner |-> owner.value,
                         record |-> PyGet(PyGet(team.d, "record", EmptyDict), "overall", EmptyDict),
                         playoff_seed |-> PyGet(team.d, "playoffSeed", 0),
                         final_rank |-> PyGet(team.d, "rankCalculatedFinal", 0)]))

\* next((t for t in teams if t.get("id") == team), {})
RECURSIVE FindTeam(_, _)
FindTeam(teams, team) ==
    IF teams = <<>> THEN JObj(EmptyDict)
    ELSE IF GetInt(Head(teams).d, "id") = team THEN Head(teams)
    ELSE FindTeam(Tail(teams), team)

\* One participant entry of a matchup (lines 211-217); side is the teamId iterated.
Participant(teams, matchup, team) ==
    LET away == PyGet(matchup, "away", EmptyDict)
        home == PyGet(matchup, "home", EmptyDict)
    IN  [id |-> team,
         name |-> _get_team_name(FindTeam(teams, team)),
         owner |-> _map_team_to_owner(team).value,
         score |-> IF team = GetInt(away, "teamId")
                   THEN PyGet(away, "totalPoints", 0)
                   ELSE PyGet(home, "totalPoints", 0)]

\* The inner loop over (away teamId, home teamId) (lines 209-217)
MatchupTeams(teams, matchup) ==
    LET a == GetInt(PyGet(matchup, "away", EmptyDict), "teamId")
        h == GetInt(PyGet(matchup, "home", EmptyDict), "teamId")
    IN  (IF Truthy(a) THEN <<Participant(teams, matchup, a)>> ELSE <<>>)
        \o (IF Truthy(h) THEN <<Participant(teams, matchup, h)>> ELSE <<>>)

\* Mutant of IsPlayoff: any bracket tag counts
IsPlayoff_AnyTier(matchup) == "playoffTierType" \in DOMAIN matchup

\* matchup.get("playoffTierType") == "WINNERS_BRACKET" (line 205)
IsPlayoff(matchup) == PyGet(matchup, "playoffTierType", "") = "WINNERS_BRACKET"

\* The loop `for matchup in schedule:` (lines 201-219)
RECURSIVE ProcessSchedule(_, _, _)
ProcessSchedule(teams, schedule, built) ==
    IF schedule = <<>> THEN [raised |-> FALSE, built |-> built]
    ELSE
        LET matchup == Head(schedule) IN
        IF matchup.t # "obj" THEN [raised |-> TRUE, built |-> built, error |-> AttributeError]
        ELSE IF PyGet(matchup.d, "matchupPeriodId", 0) > 0
             THEN ProcessSchedule(teams, Tail(schedule), Append(built,
                      [week |-> matchup.d["matchupPeriodId"],
                       playoff |-> IsPlayoff(matchup.d),
                       teams |-> MatchupTeams(teams, matchup.d)]))
             ELSE ProcessSchedule(teams, Tail(schedule), built)

\* lambda x: x["final_rank"] or 999 (line 222)
FinalRankKey(x) == IF x.final_rank # 0 THEN x.final_rank ELSE 999

\* Stable insertion of x into a list sorted by FinalRankKey, after the elements
\* whose key is <= that of x
RECURSIVE InsertByFinalRank(_, _)
InsertByFinalRank(sorted, x) ==
    IF sorted = <<>> THEN <<x>>
    ELSE IF FinalRankKey(Head(sorted)) <= FinalRankKey(x)
         THEN <<Head(sorted)>> \o InsertByFinalRank(Tail(sorted), x)
         ELSE <<x>> \o sorted

\* sorted(season_info["teams"], key=lambda x: x["final_rank"] or 999): stable, ascending
RECURSIVE SortedByFinalRank(_)
SortedByFinalRank(seq) ==
    IF seq = <<>> THEN <<>>
    ELSE InsertByFinalRank(SortedByFinalRank(SubSeq(seq, 1, Len(seq) - 1)), seq[Len(seq)])

\* Lines 222-225: champion and runner-up of the team list
Champion(teams) ==
    LET sorted_teams == SortedByFinalRank(teams) IN
    IF sorted_teams # <<>> /\ sorted_teams[1].final_rank = 1 THEN sorted_teams[1] ELSE None

RunnerUp(teams) ==
    LET sorted_teams == SortedByFinalRank(teams) IN
    IF sorted_teams # <<>> /\ Len(sorted_teams) > 1 /\ sorted_teams[2].final_rank = 2
    THEN sorted_teams[2] ELSE None

NewSeasonInfo(year) ==
    [season |-> year, teams |-> <<>>, matchups |-> <<>>, champion |-> None, runner_up |-> None]

NoInfo == [t |-> "unbound"]

\* The try block of get_season_data once both views are fetched (lines 176-227):
\* whether it raised, and season_info as it stood when the block was left
\* (NoInfo while the name season_info is not yet bound).
BuildSeason(year, team_view, matchup_view) ==
    IF team_view.t # "obj" \/ matchup_view.t # "obj"
    THEN [raised |-> TRUE, info |-> NoInfo, error |-> AttributeError]
    ELSE
        LET teams == PyGet(team_view.d, "teams", <<>>)
            schedule == PyGet(matchup_view.d, "schedule", <<>>)
            t == ProcessTeams(teams, <<>>)
            info1 == [NewSeasonInfo(year) EXCEPT !.teams = t.built]
        IN  IF t.raised THEN [raised |-> TRUE, info |-> info1, error |-> t.error]
            ELSE
                LET m == ProcessSchedule(teams, schedule, <<>>)
                    info2 == [info1 EXCEPT !.matchups = m.built]
                IN  IF m.raised THEN [raised |-> TRUE, info |-> info2, error |-> m.error]
                    ELSE [raised |-> FALSE,
                          info |-> [info2 EXCEPT !.champion = Champion(info2.teams),
                                                 !.runner_up = RunnerUp(info2.teams)]]

\* Mutant of ErrorRecord: the error is attached to season_info as built so far
ErrorRecord_KeepingPartial(year, error, info) ==
    IF info = NoInfo
    THEN [season |-> year, teams |-> <<>>, matchups |-> <<>>, champion |-> None,
          runner_up |-> None, error |-> error]
    ELSE [season |-> info.season, teams |-> info.teams, matchups |-> info.matchups,
          champion |-> info.champion, runner_up |-> info.runner_up, error |-> error]

\* The except clause of get_season_data (lines 229-237); info is season_info as
\* it stood when the exception was raised
ErrorRecord(year, error, info) ==
    [season |-> year, teams |-> <<>>, matchups |-> <<>>, champion |-> None,
     runner_up |-> None, error |-> error]

\* get_season_data once both views are fetched
NormalizeSeason(year, team_view, matchup_view) ==
    LET b == BuildSeason(year, team_view, matchup_view) IN
    IF b.raised THEN ErrorRecord(year, b.error, b.info) ELSE b.info

---------------------------------------------------------------------------
(* services/espn_dashboard.py: the season fetcher, and the pipeline           *)
(* get_historical_data -> get_season_data -> _make_request                    *)

api_hosts == <<"https://lm-api-reads.fantasy.espn.com", "https://fantasy.espn.com">>

START_SEASON == 2022

\* Largest number of years CURRENT_SEASON lies after START_SEASON
MaxSpan == 1

LEAGUE_ID == "12345"

\* host + self.api_path.format(season=season, league=LEAGUE_ID)
Url(host, year) ==
    host \o "/apis/v3/games/ffl/seasons/" \o ToString(year) \o "/segments/0/leagues/" \o LEAGUE_ID

Idle == [t |-> "idle"]

\* The report services have not been called and hold no cached collection
svcIdle ==
    /\ svc_data = Idle /\ svc_call = Idle /\ svc_out = Idle
    /\ svc_fetches = 0 /\ set_order = <<>> /\ threads = <<>>

\* A body that response.json() cannot decode (it raises)
Undecodable == [t |-> "undecodable"]

\* What requests.get can do: raise (timeout, connection error), or answer with a
\* status code, a Content-Type and a body.
TransportError == [transport |-> TRUE]
HttpResponse(status, json_ctype, body) ==
    [transport |-> FALSE, status |-> status, json_ctype |-> json_ctype, body |-> body]

\* Raw team entries and schedule entries the pipeline is fed
RawTeam1 == JObj([id |-> 1, name |-> "Cardinals", rankCalculatedFinal |-> 1])
RawMatchup1 ==
    JObj([matchupPeriodId |-> 1,
          away |-> [teamId |-> 1, totalPoints |-> 150],
          home |-> [teamId |-> 2, totalPoints |-> 100]])

TeamBodies ==
    {JOther, JObj(EmptyDict), JObj([teams |-> <<RawTeam1>>]),
     JObj([teams |-> <<RawTeam1, JOther>>])}
MatchupBodies ==
    {JObj([schedule |-> <<>>]), JObj([schedule |-> <<RawMatchup1>>]),
     JObj([schedule |-> <<RawMatchup1, JOther>>])}

Bodies(v) == IF v = "mTeam" THEN TeamBodies ELSE MatchupBodies

Responses(v) ==
    {TransportError}
    \cup {HttpResponse(200, TRUE, b) : b \in Bodies(v) \cup {Undecodable}}
    \cup {HttpResponse(200, FALSE, Undecodable), HttpResponse(500, TRUE, Undecodable),
          HttpResponse(500, FALSE, Undecodable)}

\* Mutant of Returns: the Content-Type test of line 86 is left out
Returns_IgnoringContentType(r) ==
    /\ ~r.transport
    /\ r.status = 200

\* Lines 84-87: the response makes _make_request return response.json()
Returns(r) ==
    /\ ~r.transport
    /\ r.status = 200
    /\ r.json_ctype
    /\ r.body # Undecodable

\* Lines 89 and 92: the value last_error takes when the response does not return
FailureText(r, url) ==
    IF r.transport \/ (r.status = 200 /\ r.json_ctype)
    THEN "Request failed for " \o url \o ": error"
    ELSE "HTTP " \o ToString(r.status) \o " from " \o url

\* Mutant of RecordFailure: the first failure is kept, later ones are dropped
RecordFailure_KeepFirst(previous, text) == IF previous = "None" THEN text ELSE previous

\* The assignment to last_error (lines 89, 92): previous is the value it replaces,
\* text the failure of the host just tried
RecordFailure(previous, text) == text

\* Line 95
AllHostsFailed(err) == "All API hosts failed. Last error: " \o err

\* Mutant of SeasonRange: the upper end of the range is excluded
SeasonRange_Exclusive(current) == START_SEASON .. (current - 1)

\* range(start_season, current_season + 1) (line 246)
SeasonRange(current) == START_SEASON .. current

Init ==
    /\ CURRENT_SEASON \in (START_SEASON - 1) .. (START_SEASON + MaxSpan)
    /\ pc = "hist"
    /\ season = START_SEASON
    /\ view = "none"
    /\ host_i = 1
    /\ last_error = "None"
    /\ contacted = <<>>
    /\ answers = <<>>
    /\ mr_result = Idle
    /\ team_data = Idle
    /\ historical_data = <<>>
    /\ partial_info = NoInfo
    /\ norm_in = Idle /\ norm_out = Idle
    /\ res_in = Idle /\ res_out = Idle
    /\ h2h_data = <<>> /\ h2h_phase = "idle" /\ h2h_out = Idle
    /\ svcIdle

\* _make_request(season, params) is entered: lines 63-66
StartRequest(v) ==
    /\ pc' = "request"
    /\ view' = v
    /\ host_i' = 1
    /\ last_error' = "None"
    /\ contacted' = <<>>
    /\ answers' = <<>>

\* get_historical_data, line 246-247: the loop calls get_season_data(season),
\* which calls _make_request(season, {"view": "mTeam"}) (line 173)
CallGetSeasonData ==
    /\ pc = "hist"
    /\ season \in SeasonRange(CURRENT_SEASON)
    /\ StartRequest("mTeam")
    /\ team_data' = Idle
    /\ UNCHANGED <<CURRENT_SEASON, season, mr_result, historical_data, partial_info>>
    /\ UNCHANGED <<normVars, resVars, h2hVars, svcVars, procVars>>

\* _make_request, one iteration of `for host in self.api_hosts` (lines 68-93)
TryHost ==
    /\ pc = "request"
    /\ host_i <= Len(api_hosts)
    /\ \E r \in Responses(view) :
        /\ contacted' = Append(contacted, api_hosts[host_i])
        /\ answers' = Append(answers, r)
        /\ IF Returns(r)
           THEN /\ mr_result' = Ok(r.body)
                /\ pc' = "returned"
                /\ UNCHANGED <<host_i, last_error>>
           ELSE /\ last_error' = RecordFailure(last_error, FailureText(r, Url(api_hosts[host_i], season)))
                /\ host_i' = host_i + 1
                /\ UNCHANGED <<mr_result, pc>>
    /\ UNCHANGED <<CURRENT_SEASON, season, view, team_data, historical_data, partial_info>>
    /\ UNCHANGED <<normVars, resVars, h2hVars, svcVars, procVars>>

\* _make_request, line 95: the loop is exhausted
RaiseAllFailed ==
    /\ pc = "request"
    /\ host_i > Len(api_hosts)
    /\ mr_result' = Raise(AllHostsFailed(last_error))
    /\ pc' = "raised"
    /\ UNCHANGED <<CURRENT_SEASON, season, view, host_i, last_error, contacted, answers,
                   team_data, historical_data, partial_info>>
    /\ UNCHANGED <<normVars, resVars, h2hVars, svcVars, procVars>>

\* get_season_data, lines 173-174: the team view is bound, the matchup view is requested
AfterTeamView ==
    /\ pc = "returned"
    /\ view = "mTeam"
    /\ team_data' = mr_result.value
    /\ StartRequest("mMatchup")
    /\ UNCHANGED <<CURRENT_SEASON, season, mr_result, historical_data, partial_info>>
    /\ UNCHANGED <<normVars, resVars, h2hVars, svcVars, procVars>>

\* get_season_data, lines 174-237 once the matchup view is fetched, and the
\* append of get_historical_data (line 248)
Normalize ==
    /\ pc = "returned"
    /\ view = "mMatchup"
    /\ historical_data' =
           Append(historical_data, NormalizeSeason(season, team_data, mr_result.value))
    /\ partial_info' = BuildSeason(season, team_data, mr_result.value).info
    /\ season' = season + 1
    /\ pc' = "hist"
    /\ UNCHANGED <<CURRENT_SEASON, view, host_i, last_error, contacted, answers, mr_result,
                   team_data>>
    /\ UNCHANGED <<normVars, resVars, h2hVars, svcVars, procVars>>

\* get_season_data, lines 229-237: _make_request raised inside the try block;
\* and the append of get_historical_data (line 248)
CatchFetchError ==
    /\ pc = "raised"
    /\ historical_data' = Append(historical_data, ErrorRecord(season, mr_result.error, NoInfo))
    /\ partial_info' = NoInfo
    /\ season' = season + 1
    /\ pc' = "hist"
    /\ UNCHANGED <<CURRENT_SEASON, view, host_i, last_error, contacted, answers, mr_result,
                   team_data>>
    /\ UNCHANGED <<normVars, resVars, h2hVars, svcVars, procVars>>

\* get_historical_data, line 250: the range is exhausted
ReturnHistorical ==
    /\ pc = "hist"
    /\ season \notin SeasonRange(CURRENT_SEASON)
    /\ pc' = "done"
    /\ UNCHANGED <<CURRENT_SEASON, season, view, host_i, last_error, contacted, answers,
                   mr_result, team_data, historical_data, partial_info>>
    /\ UNCHANGED <<normVars, resVars, h2hVars, svcVars, procVars>>

Next ==
    \/ CallGetSeasonData
    \/ TryHost
    \/ RaiseAllFailed
    \/ AfterTeamView
    \/ Normalize
    \/ CatchFetchError
    \/ ReturnHistorical

Spec == Init /\ [][Next]_vars

---------------------------------------------------------------------------
(* Claims about the fetch pipeline (specification Spec) *)

\* s contains sub as a substring
Contains(s, sub) ==
    \E i \in 1 .. (Len(s) - Len(sub) + 1) : SubSeq(s, i, i + Len(sub) - 1) = sub

\* The answer is an HTTP 200 with a JSON content type
Json200(r) == ~r.transport /\ r.status = 200 /\ r.json_ctype

\* The answer is an HTTP 200 with a JSON content type whose body decodes as JSON
DecodableJson200(r) == Json200(r) /\ r.body.t \in {"obj", "other"}

\* The hosts tried so far are the first hosts of the list, in list order
ContactedInOrder ==
    /\ Len(contacted) <= Len(api_hosts)
    /\ Len(answers) = Len(contacted)
    /\ \A i \in 1 .. Len(contacted) : contacted[i] = api_hosts[i]

\* C1 as stated: _make_request contacts the hosts in list order, each at most
\* once; it returns the body of the first host answering HTTP 200 with a JSON
\* content type and contacts no host after such an answer; it raises only after
\* every host was tried and failed (non-200, non-JSON 200 or transport error).
C1_AsStated ==
    /\ ContactedInOrder
    /\ \A i \in 1 .. (Len(answers) - 1) : ~Json200(answers[i])
    /\ pc = "returned" =>
          /\ Json200(answers[Len(answers)])
          /\ mr_result = Ok(answers[Len(answers)].body)
    /\ pc = "raised" =>
          /\ Len(contacted) = Len(api_hosts)
          /\ \A i \in 1 .. Len(answers) : ~Json200(answers[i])

\* C1 amended: _make_request contacts the hosts in list order, each at most
\* once; it returns the body of the first host answering HTTP 200 with a JSON
\* content type and a body that decodes as JSON, and contacts no host after such
\* an answer; it raises only after every host was tried and failed (non-200,
\* non-JSON 200, a 200 whose JSON body does not decode, or transport error).
C1_FirstDecodableHostWins ==
    /\ ContactedInOrder
    /\ \A i \in 1 .. (Len(answers) - 1) : ~DecodableJson200(answers[i])
    /\ pc = "returned" =>
          /\ Len(answers) >= 1
          /\ DecodableJson200(answers[Len(answers)])
          /\ mr_result = Ok(answers[Len(answers)].body)
    /\ pc = "raised" =>
          /\ Len(contacted) = Len(api_hosts)
          /\ \A i \in 1 .. Len(answers) : ~DecodableJson200(answers[i])
          /\ mr_result.raised
    /\ pc = "request" /\ host_i <= Len(api_hosts) => Len(contacted) = host_i - 1

\* A call returned the second host's body after the first host answered 200 with
\* a JSON content type and an undecodable body
C1_Witness ==
    /\ pc = "returned"
    /\ Len(answers) = 2
    /\ Json200(answers[1])
    /\ answers[1].body = Undecodable

\* The failure text of the i-th host of the list, as the loop produced it
HostFailure(i) == FailureText(answers[i], Url(api_hosts[i], season))

\* C2 as stated: when every host fails, the error raised carries the last
\* failure of each host of the list, one diagnostic per host.
C2_AsStated ==
    pc = "raised" =>
        \A i \in 1 .. Len(api_hosts) : Contains(mr_result.error, Url(api_hosts[i], season))

\* C2 amended: when every host fails, the error raised carries the failure of
\* the host tried last (the last host of the list) and of no other host.
C2_LastFailureOnly ==
    pc = "raised" =>
        /\ mr_result.error =
              "All API hosts failed. Last error: " \o HostFailure(Len(api_hosts))
        /\ \A i \in 1 .. (Len(api_hosts) - 1) :
              ~Contains(mr_result.error, Url(api_hosts[i], season))

\* Every host failed, the first by a transport error and the last with an HTTP 500
C2_Witness ==
    /\ pc = "raised"
    /\ answers[1].transport
    /\ ~answers[Len(answers)].transport
    /\ answers[Len(answers)].status = 500

\* The record get_season_data returned last
LastRecord == historical_data[Len(historical_data)]

\* A raw view or one of its entries is not a JSON object, so normalising raises
MalformedViews(tv, mv) ==
    \/ tv.t # "obj"
    \/ mv.t # "obj"
    \/ \E i \in 1 .. Len(PyGet(tv.d, "teams", <<>>)) : tv.d["teams"][i].t # "obj"
    \/ \E i \in 1 .. Len(PyGet(mv.d, "schedule", <<>>)) : mv.d["schedule"][i].t # "obj"

\* The last get_season_data call failed: a fetch raised, or normalising raised
LastSeasonFailed == mr_result.raised \/ MalformedViews(team_data, mr_result.value)

\* C3: get_season_data(year) never raises; if a fetch fails or normalising
\* raises it returns a record for that year with empty teams and matchups, null
\* champion and runner_up and an error string, and nothing built before the
\* failure survives in it.
C3_FailureGivesEmptyErrorRecord ==
    pc \in {"hist", "done"} /\ historical_data # <<>> =>
        /\ LastRecord.season = season - 1
        /\ LastSeasonFailed =>
              /\ "error" \in DOMAIN LastRecord
              /\ LastRecord.error # ""
              /\ LastRecord.teams = <<>>
              /\ LastRecord.matchups = <<>>
              /\ LastRecord.champion = None
              /\ LastRecord.runner_up = None
        /\ ~LastSeasonFailed => "error" \notin DOMAIN LastRecord

\* Normalising raised after a team had been put into season_info
C3_Witness ==
    /\ pc = "hist"
    /\ historical_data # <<>>
    /\ ~mr_result.raised
    /\ partial_info # NoInfo
    /\ partial_info.teams # <<>>
    /\ "error" \in DOMAIN LastRecord

\* C4: get_historical_data returns exactly one record per year from
\* START_SEASON to CURRENT_SEASON inclusive, in ascending year order, whatever
\* years fail: a failing year yields its error record and every later year is
\* still fetched.
C4_OneRecordPerYear ==
    /\ pc = "hist" => Len(historical_data) = season - START_SEASON
    /\ pc = "done" =>
          /\ Len(historical_data) =
                (IF CURRENT_SEASON >= START_SEASON THEN CURRENT_SEASON - START_SEASON + 1 ELSE 0)
          /\ \A i \in 1 .. Len(historical_data) :
                historical_data[i].season = START_SEASON + i - 1

\* The first year failed and the last year was still fetched and normalised
C4_Witness ==
    /\ pc = "done"
    /\ Len(historical_data) >= 2
    /\ "error" \in DOMAIN historical_data[1]
    /\ "error" \notin DOMAIN LastRecord
    /\ LastRecord.teams # <<>>

---------------------------------------------------------------------------
(* The normaliser on its own: get_season_data applied to fetched views        *)
(* (specification SpecNorm)                                                   *)

\* Largest number of teams in a team view
MaxTeams == 3

\* Largest value of rankCalculatedFinal in a team view
MaxRank == 3

\* The pipeline is not running
pipelineIdle ==
    /\ CURRENT_SEASON = START_SEASON
    /\ pc = "idle"
    /\ season = START_SEASON
    /\ view = "none"
    /\ host_i = 1
    /\ last_error = "None"
    /\ contacted = <<>>
    /\ answers = <<>>
    /\ mr_result = Idle
    /\ team_data = Idle
    /\ historical_data = <<>>
    /\ partial_info = NoInfo

\* The raw entries the team with identifier i can have: its final rank is
\* absent, 0 (not ranked yet) or 1..MaxRank
RawTeams(i) ==
    {[id |-> i]} \cup {[id |-> i, rankCalculatedFinal |-> r] : r \in 0 .. MaxRank}

RECURSIVE TeamLists(_)
TeamLists(n) ==
    IF n = 0 THEN {<<>>}
    ELSE {Append(l, JObj(t)) : l \in TeamLists(n - 1), t \in RawTeams(n)}

NormTeamViews == {JObj([teams |-> l]) : l \in UNION {TeamLists(n) : n \in 0 .. MaxTeams}}

NormMatchupViews == {JObj([schedule |-> <<>>]), JObj([schedule |-> <<RawMatchup1>>])}

InitNorm ==
    /\ pipelineIdle
    /\ norm_in = Idle /\ norm_out = Idle
    /\ res_in = Idle /\ res_out = Idle
    /\ h2h_data = <<>> /\ h2h_phase = "idle" /\ h2h_out = Idle
    /\ svcIdle

\* get_season_data(season) with the two views as fetched
GetSeasonData ==
    \E tv \in NormTeamViews, mv \in NormMatchupViews :
        /\ norm_in' = [season |-> START_SEASON, team_view |-> tv, matchup_view |-> mv]
        /\ norm_out' = NormalizeSeason(START_SEASON, tv, mv)
        /\ UNCHANGED <<pipelineVars, resVars, h2hVars, svcVars, procVars>>

NextNorm == GetSeasonData

SpecNorm == InitNorm /\ [][NextNorm]_vars

\* Some team of the record has final rank r
HasRank(rec, r) == \E i \in 1 .. Len(rec.teams) : rec.teams[i].final_rank = r

\* x is one of the teams of the record
IsTeamOf(rec, x) == \E i \in 1 .. Len(rec.teams) : rec.teams[i] = x

\* C5: in every record returned by get_season_data, for any list of teams and
\* any assignment of final ranks (duplicated and absent ranks included),
\* champion is non-null exactly when some team has final rank 1 and is then a
\* team with final rank 1; runner_up is non-null exactly when some team has
\* final rank 2 and a champion exists, and is then a team with final rank 2.
C5_AsStated ==
    norm_out # Idle =>
        /\ (norm_out.champion # None) <=> HasRank(norm_out, 1)
        /\ norm_out.champion # None =>
              norm_out.champion.final_rank = 1 /\ IsTeamOf(norm_out, norm_out.champion)
        /\ (norm_out.runner_up # None) <=>
              (HasRank(norm_out, 2) /\ norm_out.champion # None)
        /\ norm_out.runner_up # None =>
              norm_out.runner_up.final_rank = 2 /\ IsTeamOf(norm_out, norm_out.runner_up)

\* C6: in every record returned by get_season_data, if no team has final rank
\* 1 then both champion and runner_up are null, whatever the other ranks are.
C6_AsStated ==
    norm_out # Idle /\ ~HasRank(norm_out, 1) =>
        norm_out.champion = None /\ norm_out.runner_up = None

---------------------------------------------------------------------------
(* The identity resolver on its own (specification SpecResolve) *)

StrInputs ==
    DOMAIN OWNER_UUID_MAP
    \cup {"{00000000-UNMAPPED-UUID}", "", "Dana", "Fred", "Unknown Owner"}
    \cup DOMAIN TEAM_TO_OWNER_MAP
    \cup {TEAM_TO_OWNER_MAP[k] : k \in DOMAIN TEAM_TO_OWNER_MAP}

IntInputs == (-1) .. 12

DictInputs ==
    {EmptyDict, [displayName |-> "Dana"], [firstName |-> "Fred"],
     [displayName |-> "Dana", firstName |-> "Fred"]}

\* Arguments of the kinds string, integer, dict and None
ResolverInputs ==
    {PyStr(x) : x \in StrInputs} \cup {PyInt(n) : n \in IntInputs}
    \cup {PyDict(d) : d \in DictInputs} \cup {None}

InitResolve ==
    /\ pipelineIdle
    /\ norm_in = Idle /\ norm_out = Idle
    /\ res_in = Idle /\ res_out = Idle
    /\ h2h_data = <<>> /\ h2h_phase = "idle" /\ h2h_out = Idle
    /\ svcIdle

CallMapTeamToOwner ==
    \E x \in ResolverInputs :
        /\ res_in' = [fn |-> "_map_team_to_owner", arg |-> x]
        /\ res_out' = _map_team_to_owner(x)
        /\ UNCHANGED <<pipelineVars, normVars, h2hVars, svcVars, procVars>>

CallGetOwnerName ==
    \E x \in ResolverInputs :
        /\ res_in' = [fn |-> "_get_owner_name", arg |-> x]
        /\ res_out' = _get_owner_name(x)
        /\ UNCHANGED <<pipelineVars, normVars, h2hVars, svcVars, procVars>>

NextResolve == CallMapTeamToOwner \/ CallGetOwnerName

SpecResolve == InitResolve /\ [][NextResolve]_vars

\* C7: both identity lookups return a value and never raise, for an input of
\* any of the kinds string, integer, dict or None, present in the tables or not.
C7_AsStated == res_in # Idle => ~res_out.raised

\* The identity tables resolve the argument of the lookup
Resolvable(call) ==
    IF call.fn = "_map_team_to_owner"
    THEN call.arg.t = "int" /\ call.arg.n \in DOMAIN TEAM_ID_MAP
    ELSE call.arg.t = "str" /\ call.arg.s \in DOMAIN OWNER_UUID_MAP

\* The single owner the tables give a resolvable argument
TableOwner(call) ==
    IF call.fn = "_map_team_to_owner"
    THEN TEAM_TO_OWNER_MAP[TEAM_ID_MAP[call.arg.n]]
    ELSE OWNER_UUID_MAP[call.arg.s]

\* C8: for every input the identity tables cannot resolve the resolver returns
\* exactly "Unknown Owner", except for dict input carrying a display name, for
\* which it returns that display name; a resolvable identifier always returns
\* the single owner of the table.
C8_AsStated ==
    res_in # Idle =>
        /\ ~res_out.raised
        /\ res_out.value =
              (IF Resolvable(res_in) THEN TableOwner(res_in)
               ELSE IF res_in.arg.t = "dict" /\ "displayName" \in DOMAIN res_in.arg.d
                    THEN res_in.arg.d["displayName"]
                    ELSE "Unknown Owner")

---------------------------------------------------------------------------
(* services/analytics.py: get_head_to_head_stats                              *)
(*                                                                            *)
(* h2h_records is a defaultdict of defaultdicts; Python dicts iterate in      *)
(* insertion order.  It is modelled as the list of outer keys in insertion    *)
(* order (outer), for each outer key the list of its inner keys in insertion  *)
(* order (inner), and the record of each ordered pair (rec).  Scores are      *)
(* counted in hundredths of a point, so round(score, 2) leaves them as they   *)
(* are.                                                                       *)

InSeq(seq, x) == \E i \in 1 .. Len(seq) : seq[i] = x

\* for season_data in historical_data: for matchup in season_data.get("matchups", [])
RECURSIVE AllMatchups(_)
AllMatchups(data) ==
    IF data = <<>> THEN <<>> ELSE Head(data).matchups \o AllMatchups(Tail(data))

\* The team names occurring in a list of matchups
NamesIn(matchups) ==
    {matchups[i].teams[j].name : <<i, j>> \in
        {<<i, j>> \in (1 .. Len(matchups)) \X (1 .. 2) : j <= Len(matchups[i].teams)}}

\* The value the inner default factory creates (line 406)
ZeroRecord == [wins |-> 0, losses |-> 0, points_for |-> 0, points_against |-> 0, games |-> 0]

\* h2h_records as created at line 406, for the names that can become keys
EmptyH2H(names) ==
    [outer |-> <<>>,
     inner |-> [n \in names |-> <<>>],
     rec |-> [pair \in names \X names |-> ZeroRecord]]

\* h2h_records[a][b]: the access inserts the missing keys
Touch(R, a, b) ==
    [R EXCEPT !.outer = IF InSeq(@, a) THEN @ ELSE Append(@, a),
              !.inner[a] = IF InSeq(@, b) THEN @ ELSE Append(@, b)]

\* h2h_records[a][b][field] += delta
AddTo(R, a, b, field, delta) ==
    [Touch(R, a, b) EXCEPT !.rec[<<a, b>>][field] = @ + delta]

\* Mutant of RecordWinner: an equal score counts for neither side
RecordWinner_TieForNobody(R, name1, name2, score1, score2) ==
    IF score1 > score2
    THEN AddTo(AddTo(R, name1, name2, "wins", 1), name2, name1, "losses", 1)
    ELSE IF score2 > score1
         THEN AddTo(AddTo(R, name2, name1, "wins", 1), name1, name2, "losses", 1)
         ELSE R

\* Lines 427-432
RecordWinner(R, name1, name2, score1, score2) ==
    IF score1 > score2
    THEN AddTo(AddTo(R, name1, name2, "wins", 1), name2, name1, "losses", 1)
    ELSE AddTo(AddTo(R, name2, name1, "wins", 1), name1, name2, "losses", 1)

\* Lines 419-432: a valid matchup is recorded in both directions
RecordValid(R, name1, name2, score1, score2) ==
    LET R1 == AddTo(R, name1, name2, "games", 1)
        R2 == AddTo(R1, name2, name1, "games", 1)
        R3 == AddTo(R2, name1, name2, "points_for", score1)
        R4 == AddTo(R3, name1, name2, "points_against", score2)
        R5 == AddTo(R4, name2, name1, "points_for", score2)
        R6 == AddTo(R5, name2, name1, "points_against", score1)
    IN  RecordWinner(R6, name1, name2, score1, score2)

\* Lines 410-432: the body of the loop over the matchups
RecordMatchup(R, matchup) ==
    LET teams == matchup.teams IN
    IF Len(teams) = 2 /\ teams[1].score > 0 /\ teams[2].score > 0
    THEN RecordValid(R, teams[1].name, teams[2].name, teams[1].score, teams[2].score)
    ELSE R

\* Lines 408-432
RECURSIVE RecordAll(_, _)
RecordAll(R, matchups) ==
    IF matchups = <<>> THEN R
    ELSE RecordAll(RecordMatchup(R, Head(matchups)), Tail(matchups))

\* round(p / g, 2) in hundredths: the nearest integer to p / g, a tie going to
\* the even one (exact ties of the binary quotient aside)
RoundedAverage(p, g) ==
    LET q == p \div g
        r == p % g
    IN  IF 2 * r > g \/ (2 * r = g /\ q % 2 = 1) THEN q + 1 ELSE q

\* Mutant of SeriesLeader: the first team leads unless it has fewer wins
SeriesLeader_FirstOnTie(team1, team2, wins1, wins2) ==
    IF wins1 >= wins2 THEN team1 ELSE team2

\* Lines 464-469
SeriesLeader(team1, team2, wins1, wins2) ==
    IF wins1 > wins2 THEN team1
    ELSE IF wins2 > wins1 THEN team2
    ELSE "Tied"

\* Lines 446-469: the entry of the pair as seen from team1
Entry(R, team1, team2) ==
    LET record1 == R.rec[<<team1, team2>>]
        record2 == R.rec[<<team2, team1>>]
        total_games == record1.games
    IN  [team1 |-> team1,
         team2 |-> team2,
         team1_wins |-> record1.wins,
         team2_wins |-> record2.wins,
         total_games |-> total_games,
         team1_points |-> record1.points_for,
         team2_points |-> record2.points_for,
         team1_avg |-> RoundedAverage(record1.points_for, total_games),
         team2_avg |-> RoundedAverage(record2.points_for, total_games),
         series_leader |-> SeriesLeader(team1, team2, record1.wins, record2.wins)]

\* The (team1, team2) combinations in the order the loops of lines 438-439 visit them
RECURSIVE VisitOrder(_, _)
VisitOrder(R, outer) ==
    IF outer = <<>> THEN <<>>
    ELSE [i \in 1 .. Len(R.inner[Head(outer)]) |-> <<Head(outer), R.inner[Head(outer)][i]>>]
         \o VisitOrder(R, Tail(outer))

\* Lines 438-471: processed is the set processed_pairs, a sorted pair being
\* modelled as the set of its two names
RECURSIVE EmitEntries(_, _, _)
EmitEntries(R, visits, processed) ==
    IF visits = <<>> THEN <<>>
    ELSE
        LET team1 == Head(visits)[1]
            team2 == Head(visits)[2]
        IN  IF team1 # team2 /\ {team1, team2} \notin processed
            THEN (IF R.rec[<<team1, team2>>].games > 0
                  THEN <<Entry(R, team1, team2)>> ELSE <<>>)
                 \o EmitEntries(R, Tail(visits), processed \cup {{team1, team2}})
            ELSE EmitEntries(R, Tail(visits), processed)

\* Stable insertion of x into a list sorted by total_games, descending
RECURSIVE InsertByGames(_, _)
InsertByGames(sorted, x) ==
    IF sorted = <<>> THEN <<x>>
    ELSE IF Head(sorted).total_games >= x.total_games
         THEN <<Head(sorted)>> \o InsertByGames(Tail(sorted), x)
         ELSE <<x>> \o sorted

\* matchup_results.sort(key=lambda x: x["total_games"], reverse=True) (line 474)
RECURSIVE SortByGames(_)
SortByGames(entries) ==
    IF entries = <<>> THEN <<>>
    ELSE InsertByGames(SortByGames(SubSeq(entries, 1, Len(entries) - 1)),
                       entries[Len(entries)])

\* get_head_to_head_stats on the cached collection
get_head_to_head_stats(data) ==
    LET matchups == AllMatchups(data)
        R == RecordAll(EmptyH2H(NamesIn(matchups)), matchups)
        matchup_results == SortByGames(EmitEntries(R, VisitOrder(R, R.outer), {}))
    IN  [head_to_head |-> matchup_results, total_matchups |-> Len(matchup_results)]

---------------------------------------------------------------------------
(* The head-to-head report over a season collection (specification SpecH2H) *)

\* Largest number of matchups in the collection
MaxMatchups == 3

H2HNames == <<"Owner A", "Owner B", "Owner C">>

\* The participant entry get_season_data builds for team i with a score
Side(i, score) ==
    [id |-> PyInt(i), name |-> H2HNames[i], owner |-> _map_team_to_owner(PyInt(i)).value,
     score |-> score]

\* (away, home) team pairs: both orders of one pair, a second pair, and a team
\* listed on both sides
SidePairs == {<<1, 2>>, <<2, 1>>, <<1, 3>>, <<1, 1>>}

\* (away, home) scores in hundredths: a win of either side, a draw
ScorePairs == {<<15000, 10000>>, <<10000, 15000>>, <<10000, 10000>>}

\* The matchups a season can hold: two participants with positive scores, two
\* participants one of which has not played (score 0), or one participant (a bye)
MatchupPool ==
    {[week |-> 1, playoff |-> FALSE,
      teams |-> <<Side(sp[1], sc[1]), Side(sp[2], sc[2])>>] : sp \in SidePairs, sc \in ScorePairs}
    \cup {[week |-> 1, playoff |-> FALSE, teams |-> <<Side(1, 0), Side(2, 10000)>>]}
    \cup {[week |-> 1, playoff |-> FALSE, teams |-> <<Side(1, 15000)>>]}

CountMatchups(data) == Len(AllMatchups(data))

InitH2H ==
    /\ pipelineIdle
    /\ norm_in = Idle /\ norm_out = Idle
    /\ res_in = Idle /\ res_out = Idle
    /\ h2h_data = <<>> /\ h2h_phase = "build" /\ h2h_out = Idle
    /\ svcIdle

\* The cached collection gets the record of one more season
H2HNewSeason ==
    /\ h2h_phase = "build"
    /\ Len(h2h_data) <= MaxSpan
    /\ h2h_data # <<>> => h2h_data[Len(h2h_data)].matchups # <<>>
    /\ h2h_data' = Append(h2h_data, NewSeasonInfo(START_SEASON + Len(h2h_data)))
    /\ UNCHANGED <<h2h_phase, h2h_out, pipelineVars, normVars, resVars, svcVars, procVars>>

\* The last season of the collection gets one more matchup
H2HAddMatchup ==
    /\ h2h_phase = "build"
    /\ h2h_data # <<>>
    /\ CountMatchups(h2h_data) < MaxMatchups
    /\ \E m \in MatchupPool :
          h2h_data' = [h2h_data EXCEPT ![Len(h2h_data)].matchups = Append(@, m)]
    /\ UNCHANGED <<h2h_phase, h2h_out, pipelineVars, normVars, resVars, svcVars, procVars>>

\* get_head_to_head_stats() on the cached collection
CallHeadToHead ==
    /\ h2h_phase = "build"
    /\ h2h_out' = get_head_to_head_stats(h2h_data)
    /\ h2h_phase' = "done"
    /\ UNCHANGED <<h2h_data, pipelineVars, normVars, resVars, svcVars, procVars>>

NextH2H == H2HNewSeason \/ H2HAddMatchup \/ CallHeadToHead

SpecH2H == InitH2H /\ [][NextH2H]_vars

\* A valid matchup: two participants, both scores > 0
ValidMatchup(m) == Len(m.teams) = 2 /\ m.teams[1].score > 0 /\ m.teams[2].score > 0

\* The valid matchups of the collection, as positions in the flattened list
ValidPositions == {i \in 1 .. Len(AllMatchups(h2h_data)) : ValidMatchup(AllMatchups(h2h_data)[i])}

\* The number of valid matchups between the names a and b
GamesBetween(a, b) ==
    Cardinality({i \in ValidPositions :
        {AllMatchups(h2h_data)[i].teams[1].name, AllMatchups(h2h_data)[i].teams[2].name} = {a, b}})

TeamNames == {H2HNames[i] : i \in 1 .. Len(H2HNames)}

\* The entries of the report
Report == h2h_out.head_to_head

\* The positions of the report's entries for the pair {a, b}
EntriesOf(a, b) == {i \in 1 .. Len(Report) : {Report[i].team1, Report[i].team2} = {a, b}}

\* C9: for any collection of seasons get_head_to_head_stats emits exactly one
\* entry for every unordered pair of (two different) team names that met in at
\* least one valid matchup, never an entry for a pair that did not, and in
\* every entry team1_wins + team2_wins = total_games, the number of valid
\* matchups between the two names.
C9_OneEntryPerPair ==
    h2h_phase = "done" =>
        /\ \A a \in TeamNames : \A b \in TeamNames \ {a} :
              Cardinality(EntriesOf(a, b)) = (IF GamesBetween(a, b) > 0 THEN 1 ELSE 0)
        /\ \A i \in 1 .. Len(Report) :
              /\ Report[i].team1 # Report[i].team2
              /\ Report[i].team1_wins + Report[i].team2_wins = Report[i].total_games
              /\ Report[i].total_games = GamesBetween(Report[i].team1, Report[i].team2)
        /\ h2h_out.total_matchups = Len(Report)

\* A report with two pairs, one of which met twice, once in a draw
C9_Witness ==
    /\ h2h_phase = "done"
    /\ Len(Report) = 2
    /\ \E i \in 1 .. Len(Report) : Report[i].total_games = 2
    /\ \E i \in ValidPositions :
          AllMatchups(h2h_data)[i].teams[1].score = AllMatchups(h2h_data)[i].teams[2].score

\* series_leader is the side with strictly more wins, or "Tied"
LeaderIsSideWithMoreWins ==
    \A i \in 1 .. Len(Report) :
        Report[i].series_leader =
            (IF Report[i].team1_wins > Report[i].team2_wins THEN Report[i].team1
             ELSE IF Report[i].team2_wins > Report[i].team1_wins THEN Report[i].team2
             ELSE "Tied")

\* The entries are ordered by total_games, non-increasing
OrderedByGames ==
    \A i \in 1 .. (Len(Report) - 1) : Report[i].total_games >= Report[i + 1].total_games

\* The collection holds a single valid matchup, between two different names,
\* and one side outscored the other
SingleDecidedMatchup ==
    /\ Cardinality(ValidPositions) = 1
    /\ \A i \in ValidPositions :
          /\ AllMatchups(h2h_data)[i].teams[1].name # AllMatchups(h2h_data)[i].teams[2].name
          /\ AllMatchups(h2h_data)[i].teams[1].score # AllMatchups(h2h_data)[i].teams[2].score

\* The two participants of the single valid matchup
TheMatchup == AllMatchups(h2h_data)[CHOOSE i \in ValidPositions : TRUE].teams

\* The name of the side that outscored the other in the single valid matchup
TheWinner ==
    IF TheMatchup[1].score > TheMatchup[2].score THEN TheMatchup[1].name ELSE TheMatchup[2].name

\* C10 as stated: series_leader is the side with strictly more wins or "Tied";
\* for a single valid matchup in which A outscored B the entry reads
\* team1_wins 1, team2_wins 0, series_leader A; the entries are ordered by
\* total_games, non-increasing.
C10_AsStated ==
    h2h_phase = "done" =>
        /\ LeaderIsSideWithMoreWins
        /\ OrderedByGames
        /\ SingleDecidedMatchup =>
              /\ Len(Report) = 1
              /\ Report[1].team1_wins = 1
              /\ Report[1].team2_wins = 0
              /\ Report[1].series_leader = TheWinner

\* C10 amended: series_leader is the side with strictly more wins or "Tied";
\* for a single valid matchup in which A outscored B the entry has
\* series_leader A, its team1 is the participant listed first in the matchup,
\* and it reads team1_wins 1, team2_wins 0 when A is listed first and
\* team1_wins 0, team2_wins 1 when A is listed second; the entries are ordered
\* by total_games, non-increasing.
C10_LeaderAndOrder ==
    h2h_phase = "done" =>
        /\ LeaderIsSideWithMoreWins
        /\ OrderedByGames
        /\ SingleDecidedMatchup =>
              /\ Len(Report) = 1
              /\ Report[1].series_leader = TheWinner
              /\ Report[1].team1 = TheMatchup[1].name
              /\ Report[1].team2 = TheMatchup[2].name
              /\ Report[1].team1_wins = (IF TheWinner = TheMatchup[1].name THEN 1 ELSE 0)
              /\ Report[1].team2_wins = (IF TheWinner = TheMatchup[2].name THEN 1 ELSE 0)

\* The report of a single valid matchup won by the participant listed second
C10_Witness ==
    /\ h2h_phase = "done"
    /\ SingleDecidedMatchup
    /\ TheWinner = TheMatchup[2].name
    /\ Len(Report) = 1

---------------------------------------------------------------------------
(* Python containers used by the report services                             *)
(*                                                                            *)
(* A dict (or defaultdict) is the list of its items [key, value] in insertion *)
(* order.  Scores are counted in hundredths of a point and payouts in whole   *)
(* dollars, so round(x, 2) leaves both as they are.                           *)

\* key in d
DictHas(d, key) == \E i \in 1 .. Len(d) : d[i].key = key

\* d.get(key, default); for a defaultdict, d[key] read with the factory's value
DictGet(d, key, default) ==
    IF DictHas(d, key) THEN d[CHOOSE i \in 1 .. Len(d) : d[i].key = key].value ELSE default

\* d[key] = value: a new key goes to the end, an old key keeps its place
DictSet(d, key, value) ==
    IF DictHas(d, key)
    THEN [i \in 1 .. Len(d) |-> IF d[i].key = key THEN [key |-> key, value |-> value] ELSE d[i]]
    ELSE Append(d, [key |-> key, value |-> value])

\* sum(...) of a list of numbers
RECURSIVE Sum(_)
Sum(seq) == IF seq = <<>> THEN 0 ELSE Head(seq) + Sum(Tail(seq))

\* sorted(items, key=...): items are given as <<key, item>>, the result is
\* ascending by key and stable; reverse=True is ascending by the negated key
RECURSIVE InsertKeyed(_, _)
InsertKeyed(sorted, x) ==
    IF sorted = <<>> THEN <<x>>
    ELSE IF Head(sorted)[1] <= x[1]
         THEN <<Head(sorted)>> \o InsertKeyed(Tail(sorted), x)
         ELSE <<x>> \o sorted

RECURSIVE SortKeyed(_)
SortKeyed(keyed) ==
    IF keyed = <<>> THEN <<>>
    ELSE InsertKeyed(SortKeyed(SubSeq(keyed, 1, Len(keyed) - 1)), keyed[Len(keyed)])

\* max(items, key=...) for the list of the items' keys: the position of the
\* first item with the largest key (min is max of the negated keys)
FirstMax(keys) ==
    CHOOSE i \in 1 .. Len(keys) :
        /\ \A j \in 1 .. Len(keys) : keys[j] <= keys[i]
        /\ \A j \in 1 .. (i - 1) : keys[j] < keys[i]

\* max(d.keys(), key=lambda x: d[x]): the first key with the largest value
ArgMax(d) == d[FirstMax([i \in 1 .. Len(d) |-> d[i].value])].key

\* f"{x:.2f}" of a number of hundredths
Format2f(h) ==
    ToString(h \div 100) \o "." \o ToString((h % 100) \div 10) \o ToString(h % 10)

\* for matchup in matchups: for team in matchup.get("teams", []): the
\* participant entries in the order the two loops visit them, each with the
\* week and the playoff flag of its matchup
RECURSIVE Entries(_)
Entries(matchups) ==
    IF matchups = <<>> THEN <<>>
    ELSE [j \in 1 .. Len(Head(matchups).teams) |->
             [week |-> Head(matchups).week, playoff |-> Head(matchups).playoff,
              team |-> Head(matchups).teams[j]]]
         \o Entries(Tail(matchups))

---------------------------------------------------------------------------
(* services/payout_service.py *)

PAYOUT_STRUCTURE ==
    [champion |-> 300, runner_up |-> 150, third_place |-> 70, fourth_place |-> 50,
     weekly_high |-> 10, most_points_regular |-> 40]

\* PayoutService._get_owner_name(team_data)
PayoutService_get_owner_name(team) ==
    IF "owner" \in DOMAIN team /\ team.owner \notin {"", "Unknown"} THEN team.owner
    ELSE
        LET team_id == PyGet(team, "id", None) IN
        IF Truthy(team_id) /\ team_id.n \in DOMAIN TEAM_ID_MAP
        THEN PyGet(TEAM_TO_OWNER_MAP, TEAM_ID_MAP[team_id.n], "Team " \o ToString(team_id.n))
        ELSE IF Truthy(team_id) THEN "Team " \o ToString(team_id.n) ELSE "Unknown Team"

\* Mutant of Pay: the amount replaces what the owner had
Pay_Overwrite(L, owner, amount) ==
    [L EXCEPT !.payouts = DictSet(@, owner, amount)]

\* payouts[owner] += amount (lines 77, 86, 102, 112, 138, 174); L holds the two
\* defaultdicts payouts and payout_details
Pay(L, owner, amount) ==
    [L EXCEPT !.payouts = DictSet(@, owner, DictGet(@, owner, 0) + amount)]

\* payout_details[owner].append({"type": ..., "amount": ..., "description": ...})
Itemize(L, owner, type, amount, description) ==
    [L EXCEPT !.details = DictSet(@, owner, Append(DictGet(@, owner, <<>>),
                  [type |-> type, amount |-> amount, description |-> description]))]

\* One awarded category: the amount is added and its ledger line appended
Award(L, owner, type, amount, description) ==
    Itemize(Pay(L, owner, amount), owner, type, amount, description)

\* lambda x: x.get("final_rank", x.get("playoff_seed", 99)) (line 97)
PlaceKey(x) ==
    IF "final_rank" \in DOMAIN x THEN x.final_rank
    ELSE IF "playoff_seed" \in DOMAIN x THEN x.playoff_seed ELSE 99

\* Mutant of SortedByPlace: the teams are left in the order listed
SortedByPlace_AsListed(teams) == teams

\* sorted(teams, key=...) of line 97
SortedByPlace(teams) ==
    LET keyed == [i \in 1 .. Len(teams) |-> <<PlaceKey(teams[i]), teams[i]>>]
        sorted == SortKeyed(keyed)
    IN  [i \in 1 .. Len(sorted) |-> sorted[i][2]]

\* Mutant of CountsForRegularSeason: the playoff flag is ignored
CountsForRegularSeason_PlayoffsToo(e) == e.team.score > 0

\* Lines 125-131: the entry is added to its owner's regular-season total
CountsForRegularSeason(e) == ~e.playoff /\ e.team.score > 0

\* Lines 120-133: regular_season_totals over the participant entries
RECURSIVE RegularSeasonTotals(_, _)
RegularSeasonTotals(entries, totals) ==
    IF entries = <<>> THEN totals
    ELSE
        LET e == Head(entries)
            owner == PayoutService_get_owner_name(e.team)
        IN  RegularSeasonTotals(Tail(entries),
                IF CountsForRegularSeason(e)
                THEN DictSet(totals, owner, DictGet(totals, owner, 0) + e.team.score)
                ELSE totals)

\* Mutant of BeatsWeeklyHigh: the last positive score of the week is kept
BeatsWeeklyHigh_Last(score, high) == score > 0

\* Lines 158 and 167: the score is positive and beats the week's high so far
BeatsWeeklyHigh(score, high) == score > 0 /\ score > high

\* Lines 146-168: weekly_highs over the participant entries.  The placeholder
\* {"owner": None, "score": 0} of line 164 is created only in an iteration
\* whose first positive score replaces it, so it is never left in the dict.
RECURSIVE WeeklyHighs(_, _)
WeeklyHighs(entries, highs) ==
    IF entries = <<>> THEN highs
    ELSE
        LET e == Head(entries)
            owner == PayoutService_get_owner_name(e.team)
            high == DictGet(highs, e.week, [owner |-> "", score |-> 0])
        IN  WeeklyHighs(Tail(entries),
                IF e.week > 0 /\ BeatsWeeklyHigh(e.team.score, high.score)
                THEN DictSet(highs, e.week, [owner |-> owner, score |-> e.team.score])
                ELSE highs)

\* Lines 171-175: every week's winner is paid one unit and counted
RECURSIVE AwardWeeklyHighs(_, _)
AwardWeeklyHighs(highs, S) ==
    IF highs = <<>> THEN S
    ELSE
        LET owner == Head(highs).value.owner IN
        AwardWeeklyHighs(Tail(highs),
            IF owner # ""
            THEN [ledger |-> Pay(S.ledger, owner, PAYOUT_STRUCTURE.weekly_high),
                  counts |-> DictSet(S.counts, owner, DictGet(S.counts, owner, 0) + 1)]
            ELSE S)

\* Mutant of WeeklyHighDescription: the count comes last
WeeklyHighDescription_CountLast(count) ==
    "Weekly High Scores x $" \o ToString(PAYOUT_STRUCTURE.weekly_high) \o ": " \o ToString(count)

\* The description of line 183; the multiplication sign is written x
WeeklyHighDescription(count) ==
    ToString(count) \o " Weekly High Scores x $" \o ToString(PAYOUT_STRUCTURE.weekly_high)

\* Lines 178-184: one ledger line per owner in weekly_high_details
RECURSIVE ItemizeWeeklyHighs(_, _)
ItemizeWeeklyHighs(counts, L) ==
    IF counts = <<>> THEN L
    ELSE ItemizeWeeklyHighs(Tail(counts),
             Itemize(L, Head(counts).key, "Weekly High Scores",
                     Head(counts).value * PAYOUT_STRUCTURE.weekly_high,
                     WeeklyHighDescription(Head(counts).value)))

\* Lines 190-199: the per-owner list, sorted by total payout, descending
PayoutList(L) ==
    LET keyed == [i \in 1 .. Len(L.payouts) |->
                    <<0 - L.payouts[i].value,
                      [owner |-> L.payouts[i].key,
                       total_payout |-> L.payouts[i].value,
                       details |-> DictGet(L.details, L.payouts[i].key, <<>>)]>>]
        sorted == SortKeyed(keyed)
    IN  [i \in 1 .. Len(sorted) |-> sorted[i][2]]

\* Mutant of FindSeason: the first season when no season matches
FindSeason_OrFirst(data, year) ==
    IF data = <<>> THEN None
    ELSE IF \A i \in 1 .. Len(data) : data[i].season # year THEN data[1]
    ELSE data[CHOOSE i \in 1 .. Len(data) :
                  /\ data[i].season = year
                  /\ \A j \in 1 .. (i - 1) : data[j].season # year]

\* The first record of the collection for the season, None when there is none
FindSeason(data, year) ==
    IF \A i \in 1 .. Len(data) : data[i].season # year THEN None
    ELSE data[CHOOSE i \in 1 .. Len(data) :
                  /\ data[i].season = year
                  /\ \A j \in 1 .. (i - 1) : data[j].season # year]

\* calculate_season_payouts(season) on the cached collection
calculate_season_payouts(data, year) ==
    IF FindSeason(data, year) = None
    THEN [error |-> "No data found for season " \o ToString(year)]
    ELSE
        LET season_data == FindSeason(data, year)
            champion == season_data.champion
            runner_up == season_data.runner_up
            L0 == [payouts |-> <<>>, details |-> <<>>]
            L1 == IF champion # None
                  THEN Award(L0, PayoutService_get_owner_name(champion), "Champion",
                             PAYOUT_STRUCTURE.champion, ToString(year) \o " League Champion")
                  ELSE L0
            L2 == IF runner_up # None
                  THEN Award(L1, PayoutService_get_owner_name(runner_up), "Runner-Up",
                             PAYOUT_STRUCTURE.runner_up, ToString(year) \o " Runner-Up")
                  ELSE L1
            sorted_teams == SortedByPlace(season_data.teams)
            L3 == IF Len(sorted_teams) >= 3
                  THEN Award(L2, PayoutService_get_owner_name(sorted_teams[3]), "3rd Place",
                             PAYOUT_STRUCTURE.third_place, ToString(year) \o " 3rd Place")
                  ELSE L2
            L4 == IF Len(sorted_teams) >= 4
                  THEN Award(L3, PayoutService_get_owner_name(sorted_teams[4]), "4th Place",
                             PAYOUT_STRUCTURE.fourth_place, ToString(year) \o " 4th Place")
                  ELSE L3
            entries == Entries(season_data.matchups)
            regular_season_totals == RegularSeasonTotals(entries, <<>>)
            top_scorer == ArgMax(regular_season_totals)
            top_score == DictGet(regular_season_totals, top_scorer, 0)
            L5 == IF regular_season_totals # <<>>
                  THEN Award(L4, top_scorer, "Most Points (Regular)",
                             PAYOUT_STRUCTURE.most_points_regular,
                             ToString(year) \o " Most Points in Regular Season ("
                                 \o Format2f(top_score) \o " pts)")
                  ELSE L4
            weekly_highs == WeeklyHighs(entries, <<>>)
            W == AwardWeeklyHighs(weekly_highs, [ledger |-> L5, counts |-> <<>>])
            L6 == ItemizeWeeklyHighs(W.counts, W.ledger)
        IN  [season |-> year,
             payouts |-> PayoutList(L6),
             season_total |-> Sum([i \in 1 .. Len(L6.payouts) |-> L6.payouts[i].value]),
             weekly_highs |-> weekly_highs,
             regular_season_leader |->
                 IF regular_season_totals # <<>>
                 THEN [owner |-> top_scorer, points |-> top_score]
                 ELSE None]

\* Mutant of IsCurrentSeason: only later seasons are skipped
IsCurrentSeason_LaterOnly(year, current_season) == year > current_season

\* Line 222: the season is the one in progress (or a later one)
IsCurrentSeason(year, current_season) == year >= current_season

\* The items of a list of <<key, item>> pairs
Items(keyed) == [i \in 1 .. Len(keyed) |-> keyed[i][2]]

\* Lines 229-236: the summaries, most recent season first, and their number
AllSeasonPayouts(all_payouts, current_season) ==
    [seasons |-> Items(SortKeyed([i \in 1 .. Len(all_payouts) |->
                                     <<0 - all_payouts[i].season, all_payouts[i]>>])),
     total_seasons |-> Len(all_payouts),
     excluded_current_season |-> current_season]

\* get_all_season_payouts() on the cached collection
get_all_season_payouts(data, current_season) ==
    LET completed == SelectSeq(data, LAMBDA s : ~IsCurrentSeason(s.season, current_season))
    IN  AllSeasonPayouts(
            SelectSeq([i \in 1 .. Len(completed) |->
                          calculate_season_payouts(data, completed[i].season)],
                      LAMBDA r : "error" \notin DOMAIN r),
            current_season)

\* desc.split()[0]: the first whitespace-delimited word
FirstWord(desc) ==
    LET s == lstrip(desc)
        ends == {i \in 1 .. Len(s) : SubSeq(s, i, i) = " "}
    IN  IF ends = {} THEN s
        ELSE SubSeq(s, 1, (CHOOSE i \in ends : \A j \in ends : i <= j) - 1)

Digits == <<"0", "1", "2", "3", "4", "5", "6", "7", "8", "9">>

\* str.isdigit()
isdigit(w) == w # "" /\ \A i \in 1 .. Len(w) : InSeq(Digits, SubSeq(w, i, i))

\* int(w) of a string of digits
int(w) ==
    LET value[i \in 0 .. Len(w)] ==
            IF i = 0 THEN 0
            ELSE 10 * value[i - 1] + (CHOOSE d \in 0 .. 9 : Digits[d + 1] = SubSeq(w, i, i))
    IN  value[Len(w)]

\* The value the default factory of cumulative_payouts creates (lines 241-251)
NewOwnerStats ==
    [total_earnings |-> 0, championships |-> 0, runner_ups |-> 0, third_places |-> 0,
     fourth_places |-> 0, weekly_highs |-> 0, most_points_regular |-> 0,
     seasons_participated |-> 0, earnings_by_season |-> <<>>]

\* Lines 270-284: one ledger line is counted
CountDetail(stats, detail) ==
    CASE detail.type = "Champion" -> [stats EXCEPT !.championships = @ + 1]
      [] detail.type = "Runner-Up" -> [stats EXCEPT !.runner_ups = @ + 1]
      [] detail.type = "3rd Place" -> [stats EXCEPT !.third_places = @ + 1]
      [] detail.type = "4th Place" -> [stats EXCEPT !.fourth_places = @ + 1]
      [] detail.type = "Weekly High Scores" ->
            LET word == FirstWord(detail.description)
                count == IF isdigit(word) THEN int(word) ELSE 0
            IN  [stats EXCEPT !.weekly_highs = @ + count]
      [] detail.type = "Most Points (Regular)" -> [stats EXCEPT !.most_points_regular = @ + 1]
      [] OTHER -> stats

\* Mutant of AddEarnings: the season's payout replaces the running total
AddEarnings_Overwrite(stats, year, total_payout) ==
    [stats EXCEPT !.total_earnings = total_payout,
                  !.seasons_participated = @ + 1,
                  !.earnings_by_season = DictSet(@, year, total_payout)]

\* Lines 264-266
AddEarnings(stats, year, total_payout) ==
    [stats EXCEPT !.total_earnings = @ + total_payout,
                  !.seasons_participated = @ + 1,
                  !.earnings_by_season = DictSet(@, year, total_payout)]

\* Lines 259-284: one entry of a season's payout list is folded in
FoldPayout(cumulative_payouts, year, payout) ==
    IF payout.total_payout > 0
    THEN LET stats == AddEarnings(DictGet(cumulative_payouts, payout.owner, NewOwnerStats),
                                  year, payout.total_payout)
             counted[i \in 0 .. Len(payout.details)] ==
                 IF i = 0 THEN stats ELSE CountDetail(counted[i - 1], payout.details[i])
         IN  DictSet(cumulative_payouts, payout.owner, counted[Len(payout.details)])
    ELSE cumulative_payouts

\* Lines 259-284 for one season summary: its payout list is folded in
FoldSeason(cumulative_payouts, season_data) ==
    LET f[i \in 0 .. Len(season_data.payouts)] ==
            IF i = 0 THEN cumulative_payouts
            ELSE FoldPayout(f[i - 1], season_data.season, season_data.payouts[i])
    IN  f[Len(season_data.payouts)]

\* Lines 286-303: the owners' records, largest total_earnings first, and the
\* league total.  avg_earnings_per_season is in hundredths of a dollar.
CumulativeTotals(cumulative_payouts, seasons) ==
    LET finished(item) ==
            [owner |-> item.key,
             total_earnings |-> item.value.total_earnings,
             championships |-> item.value.championships,
             runner_ups |-> item.value.runner_ups,
             third_places |-> item.value.third_places,
             fourth_places |-> item.value.fourth_places,
             weekly_highs |-> item.value.weekly_highs,
             most_points_regular |-> item.value.most_points_regular,
             seasons_participated |-> item.value.seasons_participated,
             earnings_by_season |-> item.value.earnings_by_season,
             avg_earnings_per_season |->
                 RoundedAverage(100 * item.value.total_earnings,
                                IF item.value.seasons_participated > 1
                                THEN item.value.seasons_participated ELSE 1)]
    IN  [cumulative_payouts |->
             Items(SortKeyed([i \in 1 .. Len(cumulative_payouts) |->
                                 <<0 - cumulative_payouts[i].value.total_earnings,
                                   finished(cumulative_payouts[i])>>])),
         total_league_payouts |-> Sum([i \in 1 .. Len(seasons) |-> seasons[i].season_total]),
         payout_structure |-> PAYOUT_STRUCTURE,
         total_owners |-> Len(cumulative_payouts)]

\* Lines 241-303 of get_cumulative_payouts: the fold over the season summaries,
\* in the order given
CumulativeFold(seasons) ==
    LET folded[i \in 0 .. Len(seasons)] ==
            IF i = 0 THEN <<>> ELSE FoldSeason(folded[i - 1], seasons[i])
    IN  CumulativeTotals(folded[Len(seasons)], seasons)

\* get_cumulative_payouts() on the cached collection
get_cumulative_payouts(data, current_season) ==
    CumulativeFold(get_all_season_payouts(data, current_season).seasons)

---------------------------------------------------------------------------
(* calculate_season_payouts on a freshly fetched season: the placings         *)
(* (specification SpecPodium)                                                 *)

\* Largest number of teams in the team view
MaxPodiumTeams == 4

\* The raw entries of the i-th team of the view: its final rank is absent or
\* one of the paid places, its playoff seed runs against the listing order,
\* and the third and fourth team may carry an identifier the table lacks
PodiumRawTeams(i) ==
    LET ids == IF i \in {3, 4} THEN {i, i + 10} ELSE {i}
        seed == MaxPodiumTeams + 1 - i
    IN  {[id |-> n, playoffSeed |-> seed] : n \in ids}
        \cup {[id |-> n, playoffSeed |-> seed, rankCalculatedFinal |-> r] :
                 n \in ids, r \in {1, 2, 3, 4}}

RECURSIVE PodiumTeamLists(_)
PodiumTeamLists(n) ==
    IF n = 0 THEN {<<>>}
    ELSE {Append(l, JObj(t)) : l \in PodiumTeamLists(n - 1), t \in PodiumRawTeams(n)}

PodiumTeamViews ==
    {JObj([teams |-> l]) : l \in UNION {PodiumTeamLists(n) : n \in 0 .. MaxPodiumTeams}}

\* No schedule, a week not played yet, a played week
PodiumMatchupViews ==
    {JObj([schedule |-> <<>>]),
     JObj([schedule |-> <<JObj([matchupPeriodId |-> 1,
                                away |-> [teamId |-> 1, totalPoints |-> 0],
                                home |-> [teamId |-> 2, totalPoints |-> 0]])>>]),
     JObj([schedule |-> <<JObj([matchupPeriodId |-> 1,
                                away |-> [teamId |-> 1, totalPoints |-> 15000],
                                home |-> [teamId |-> 2, totalPoints |-> 10000]])>>])}

\* Mutant of Cached: the list is left in the opposite order
Cached_Reversed(data) ==
    [t |-> "cached", data |-> [i \in 1 .. Len(data) |-> data[Len(data) + 1 - i]]]

\* _cached_historical_data once _get_historical_data has filled it
Cached(data) == [t |-> "cached", data |-> data]

InitPodium ==
    /\ pipelineIdle
    /\ norm_in = Idle /\ norm_out = Idle
    /\ res_in = Idle /\ res_out = Idle
    /\ h2h_data = <<>> /\ h2h_phase = "idle" /\ h2h_out = Idle
    /\ svcIdle

\* calculate_season_payouts(season) with an empty cache: _get_historical_data
\* fetches the collection (one season, the two views as fetched) and keeps it
CalculateSeasonPayouts ==
    /\ svc_data = Idle
    /\ \E tv \in PodiumTeamViews, mv \in PodiumMatchupViews :
          LET fetched == <<NormalizeSeason(START_SEASON, tv, mv)>> IN
          /\ svc_data' = Cached(fetched)
          /\ svc_call' = [op |-> "calculate_season_payouts", season |-> START_SEASON]
          /\ svc_out' = calculate_season_payouts(fetched, START_SEASON)
    /\ UNCHANGED <<pipelineVars, normVars, resVars, h2hVars, procVars>>

NextPodium == CalculateSeasonPayouts

SpecPodium == InitPodium /\ [][NextPodium]_vars

\* calculate_season_payouts has returned a summary
SummaryReturned ==
    /\ svc_call # Idle
    /\ svc_call.op = "calculate_season_payouts"
    /\ "error" \notin DOMAIN svc_out

\* The record of the season the summary is about
PaidSeason ==
    svc_data.data[CHOOSE i \in 1 .. Len(svc_data.data) :
                      svc_data.data[i].season = svc_call.season]

\* The ledger lines of a summary, each with the owner it belongs to (an owner
\* holds at most one line of each of the six types)
LedgerLinesOf(summary) ==
    {[owner |-> summary.payouts[i].owner, line |-> summary.payouts[i].details[j]] :
        <<i, j>> \in {<<i, j>> \in (1 .. Len(summary.payouts)) \X (1 .. 6) :
                         j <= Len(summary.payouts[i].details)}}

LedgerLines == LedgerLinesOf(svc_out)

\* The owners holding a ledger line of the given type in a summary
RecipientsIn(summary, type) ==
    {l.owner : l \in {x \in LedgerLinesOf(summary) : x.line.type = type}}

Recipients(type) == RecipientsIn(svc_out, type)

\* The owners of the teams of the paid season with the given final rank
OwnersOfRank(r) ==
    {PaidSeason.teams[i].owner : i \in {i \in 1 .. Len(PaidSeason.teams) :
                                           PaidSeason.teams[i].final_rank = r}}

\* No participant entry of the paid season has a positive score
NoScoredMatchups ==
    \A i \in 1 .. Len(Entries(PaidSeason.matchups)) :
        Entries(PaidSeason.matchups)[i].team.score <= 0

\* Four teams holding the final ranks 1, 2, 3, 4, with four different owners
RanksOneToFour ==
    /\ Len(PaidSeason.teams) = 4
    /\ {PaidSeason.teams[i].final_rank : i \in 1 .. 4} = {1, 2, 3, 4}
    /\ Cardinality({PaidSeason.teams[i].owner : i \in 1 .. 4}) = 4

\* The owner holds exactly one ledger line, of this type and amount
OnlyLine(owner, type, amount) ==
    /\ \E l \in LedgerLines : l.owner = owner /\ l.line.type = type /\ l.line.amount = amount
    /\ Cardinality({l \in LedgerLines : l.owner = owner}) = 1

PlaceOf(team) == IF team.final_rank # 0 THEN team.final_rank ELSE team.playoff_seed

\* The owners of the teams of the paid season holding the given place
OwnersOfPlace(p) ==
    {PaidSeason.teams[i].owner : i \in {i \in 1 .. Len(PaidSeason.teams) :
                                           PlaceOf(PaidSeason.teams[i]) = p}}

\* C14: in every summary of a season produced by get_season_data (teams
\* without a final rank included) the third-place amount goes to a team
\* ranked 3rd and the fourth-place amount to a team ranked 4th, ranking by
\* final rank and by playoff seed where the final rank is absent; a team whose
\* rank is neither 3 nor 4 never receives either amount.
C14_AsStated ==
    SummaryReturned =>
        /\ Recipients("3rd Place") \subseteq OwnersOfPlace(3)
        /\ Recipients("4th Place") \subseteq OwnersOfPlace(4)

---------------------------------------------------------------------------
(* services/analytics.py: get_scoring_stats and get_season_stats *)

\* Mutant of ValidScore: a score of 0 is taken as valid
ValidScore_NonNegative(score) == score >= 0

\* `if score > 0:  # Valid score` (line 147)
ValidScore(score) == score > 0

\* Lines 138-157: the score records of one season, in the order visited
SeasonScoreRecords(season_data) ==
    LET entries == Entries(season_data.matchups)
        records == [i \in 1 .. Len(entries) |->
                       [score |-> entries[i].team.score,
                        team_name |-> entries[i].team.name,
                        team_id |-> entries[i].team.id,
                        season |-> season_data.season,
                        week |-> entries[i].week,
                        is_playoff |-> entries[i].playoff]]
    IN  SelectSeq(records, LAMBDA r : ValidScore(r.score))

\* statistics.median, rounded to hundredths
Median(scores) ==
    LET sorted == SortKeyed([i \in 1 .. Len(scores) |-> <<scores[i], scores[i]>>])
        n == Len(sorted)
    IN  IF n % 2 = 1 THEN sorted[(n + 1) \div 2][2]
        ELSE RoundedAverage(sorted[n \div 2][2] + sorted[n \div 2 + 1][2], 2)

\* Lines 180-202: the season's top scorer; totals is season_totals[season]
SeasonLeader(data, year, totals) ==
    LET top_scorer_id == ArgMax(totals)
        teams == data[CHOOSE i \in 1 .. Len(data) : data[i].season = year].teams
        named == {i \in 1 .. Len(teams) : teams[i].id = top_scorer_id}
    IN  [season |-> year,
         team_name |-> IF named = {} THEN "Unknown"
                       ELSE teams[CHOOSE i \in named : \A j \in named : i <= j].name,
         total_points |-> DictGet(totals, top_scorer_id, 0),
         team_id |-> top_scorer_id]

\* get_scoring_stats() on the cached collection.  std_dev is given as the list
\* statistics.stdev is applied to (empty where the code puts 0).
get_scoring_stats(data) ==
    LET found[i \in 0 .. Len(data)] ==
            IF i = 0 THEN <<>> ELSE found[i - 1] \o SeasonScoreRecords(data[i])
        visited == found[Len(data)]
        byScore(seq, sign) ==
            LET sorted == SortKeyed([i \in 1 .. Len(seq) |-> <<sign * seq[i].score, seq[i]>>])
            IN  [i \in 1 .. Len(sorted) |-> sorted[i][2]]
        all_scores == byScore(visited, 0 - 1)
        top10(seq) == SubSeq(seq, 1, Min(10, Len(seq)))
        weekly_scores[i \in 0 .. Len(visited)] ==
            IF i = 0 THEN <<>>
            ELSE DictSet(weekly_scores[i - 1], visited[i].week,
                         Append(DictGet(weekly_scores[i - 1], visited[i].week, <<>>),
                                visited[i].score))
        season_totals[i \in 0 .. Len(visited)] ==
            IF i = 0 THEN <<>>
            ELSE LET totals == DictGet(season_totals[i - 1], visited[i].season, <<>>) IN
                 DictSet(season_totals[i - 1], visited[i].season,
                         DictSet(totals, visited[i].team_id,
                                 DictGet(totals, visited[i].team_id, 0) + visited[i].score))
        weeks == weekly_scores[Len(visited)]
        seasons == season_totals[Len(visited)]
        season_leaders ==
            SortKeyed([i \in 1 .. Len(seasons) |->
                          <<0 - seasons[i].key, SeasonLeader(data, seasons[i].key, seasons[i].value)>>])
        scores_only == [i \in 1 .. Len(all_scores) |-> all_scores[i].score]
    IN  IF visited = <<>> THEN [error |-> "No scoring data available"]
        ELSE [highest_scores |-> top10(all_scores),
              lowest_scores |-> top10(byScore(all_scores, 1)),
              season_leaders |-> [i \in 1 .. Len(season_leaders) |-> season_leaders[i][2]],
              weekly_averages |->
                  [i \in 1 .. Len(weeks) |->
                      [key |-> weeks[i].key,
                       value |-> [average |-> RoundedAverage(Sum(weeks[i].value),
                                                             Len(weeks[i].value)),
                                  count |-> Len(weeks[i].value)]]],
              overall_stats |->
                  [total_games |-> Len(all_scores),
                   average_score |-> RoundedAverage(Sum(scores_only), Len(scores_only)),
                   median_score |-> Median(scores_only),
                   std_dev |-> IF Len(scores_only) > 1 THEN scores_only ELSE <<>>,
                   score_range |-> scores_only[1] - scores_only[Len(scores_only)]]]

\* Lines 238-282: the statistics of one season with teams and matchups
SeasonStats(season_data) ==
    LET teams == season_data.teams
        matchups == season_data.matchups
        entries == Entries(matchups)
        season_scores == SelectSeq([i \in 1 .. Len(entries) |-> entries[i].team.score],
                                   LAMBDA score : score > 0)
        team_records[i \in 0 .. Len(teams)] ==
            IF i = 0 THEN <<>>
            ELSE DictSet(team_records[i - 1], teams[i].id,
                         [name |-> teams[i].name,
                          wins |-> PyGet(teams[i].record, "wins", 0),
                          losses |-> PyGet(teams[i].record, "losses", 0),
                          points_for |-> PyGet(teams[i].record, "pointsFor", 0),
                          points_against |-> PyGet(teams[i].record, "pointsAgainst", 0)])
        records == team_records[Len(teams)]
        best(field, sign) ==
            records[FirstMax([i \in 1 .. Len(records) |-> sign * records[i].value[field]])].value
        sorted_scores == SortKeyed([i \in 1 .. Len(season_scores) |->
                                       <<season_scores[i], season_scores[i]>>])
    IN  [season |-> season_data.season,
         total_teams |-> Len(teams),
         total_games |-> Len(SelectSeq(matchups, LAMBDA m : ~m.playoff)),
         playoff_games |-> Len(SelectSeq(matchups, LAMBDA m : m.playoff)),
         average_score |-> IF season_scores # <<>>
                           THEN RoundedAverage(Sum(season_scores), Len(season_scores)) ELSE 0,
         highest_score |-> IF season_scores # <<>>
                           THEN sorted_scores[Len(sorted_scores)][2] ELSE 0,
         lowest_score |-> IF season_scores # <<>> THEN sorted_scores[1][2] ELSE 0,
         best_record |-> best("wins", 1),
         worst_record |-> best("wins", 0 - 1),
         highest_scoring_team |-> best("points_for", 1),
         lowest_scoring_team |-> best("points_for", 0 - 1),
         champion |-> season_data.champion,
         runner_up |-> season_data.runner_up]

\* get_season_stats() on the cached collection
get_season_stats(data) ==
    LET reported == SelectSeq(data, LAMBDA s : s.teams # <<>> /\ s.matchups # <<>>)
        sorted == SortKeyed([i \in 1 .. Len(reported) |->
                                <<0 - reported[i].season, SeasonStats(reported[i])>>])
    IN  [seasons |-> [i \in 1 .. Len(sorted) |-> sorted[i][2]],
         total_seasons |-> Len(sorted)]

---------------------------------------------------------------------------
(* The reports over one fetched season with scored, unplayed and bye weeks    *)
(* (specification SpecReports)                                                *)

\* Largest number of entries in the schedule view
MaxReportMatchups == 3

\* The team view: three teams of three owners, named in the three ways
\* _get_team_name knows
ReportTeamView ==
    JObj([teams |-> <<
        JObj([id |-> 1, name |-> "Cardinals", rankCalculatedFinal |-> 1, playoffSeed |-> 1,
              record |-> [overall |-> [wins |-> 2, losses |-> 1, pointsFor |-> 40000,
                                       pointsAgainst |-> 35000]]]),
        JObj([id |-> 2, location |-> "Green", nickname |-> "Geckos",
              rankCalculatedFinal |-> 2, playoffSeed |-> 2,
              record |-> [overall |-> [wins |-> 2, losses |-> 1, pointsFor |-> 45000]]]),
        JObj([id |-> 3, rankCalculatedFinal |-> 3, playoffSeed |-> 3])>>])

\* A schedule entry with both sides
RawMatchup(week, tier, away, away_points, home, home_points) ==
    JObj([matchupPeriodId |-> week, playoffTierType |-> tier,
          away |-> [teamId |-> away, totalPoints |-> away_points],
          home |-> [teamId |-> home, totalPoints |-> home_points]])

\* The schedule entries: played weeks (two in week 1, one decided in the
\* playoffs, one drawn), a week not played, a week one side has not played,
\* and a bye (no away side) with points for the home side
ReportMatchupPool ==
    {RawMatchup(1, "NONE", 1, 15000, 2, 10000),
     RawMatchup(1, "NONE", 3, 12000, 2, 11000),
     RawMatchup(2, "NONE", 1, 10000, 3, 15000),
     RawMatchup(2, "WINNERS_BRACKET", 2, 20000, 1, 10000),
     RawMatchup(1, "NONE", 1, 10000, 2, 10000),
     RawMatchup(2, "NONE", 1, 0, 2, 0),
     RawMatchup(1, "NONE", 2, 0, 3, 10000),
     JObj([matchupPeriodId |-> 2, playoffTierType |-> "NONE",
           home |-> [teamId |-> 2, totalPoints |-> 18000]])}

RECURSIVE ReportSchedules(_)
ReportSchedules(n) ==
    IF n = 0 THEN {<<>>}
    ELSE {Append(l, m) : l \in ReportSchedules(n - 1), m \in ReportMatchupPool}

ReportMatchupViews ==
    {JObj([schedule |-> l]) : l \in UNION {ReportSchedules(n) : n \in 0 .. MaxReportMatchups}}

InitReports ==
    /\ pipelineIdle
    /\ norm_in = Idle /\ norm_out = Idle
    /\ res_in = Idle /\ res_out = Idle
    /\ h2h_data = <<>> /\ h2h_phase = "idle" /\ h2h_out = Idle
    /\ svcIdle

\* What the named operation returns on a cached collection
ReportOf(op, data) ==
    CASE op = "get_scoring_stats" -> get_scoring_stats(data)
      [] op = "get_season_stats" -> get_season_stats(data)
      [] op = "get_head_to_head_stats" -> get_head_to_head_stats(data)
      [] op = "calculate_season_payouts" -> calculate_season_payouts(data, START_SEASON)

\* The operation is called on a service with an empty cache:
\* _get_historical_data fetches the collection (one season) and keeps it
CallReport(op) ==
    /\ svc_data = Idle
    /\ \E mv \in ReportMatchupViews :
          LET fetched == <<NormalizeSeason(START_SEASON, ReportTeamView, mv)>> IN
          /\ svc_data' = Cached(fetched)
          /\ svc_call' = [op |-> op, season |-> START_SEASON]
          /\ svc_out' = ReportOf(op, fetched)
    /\ UNCHANGED <<pipelineVars, normVars, resVars, h2hVars, procVars>>

CallScoringStats == CallReport("get_scoring_stats")
CallSeasonStats == CallReport("get_season_stats")
CallHeadToHeadStats == CallReport("get_head_to_head_stats")
CallSeasonPayouts == CallReport("calculate_season_payouts")

NextReports ==
    \/ CallScoringStats
    \/ CallSeasonStats
    \/ CallHeadToHeadStats
    \/ CallSeasonPayouts

SpecReports == InitReports /\ [][NextReports]_vars

\* A report has been returned
Reported == svc_call # Idle

\* The collection with the given participant entries taken out of its matchups
\* (the matchups themselves stay)
WithoutZeroEntries(data) ==
    [i \in 1 .. Len(data) |->
        [data[i] EXCEPT !.matchups =
            [j \in 1 .. Len(@) |->
                [@[j] EXCEPT !.teams = SelectSeq(@, LAMBDA e : e.score # 0)]]]]

WithoutByes(data) ==
    [i \in 1 .. Len(data) |->
        [data[i] EXCEPT !.matchups =
            [j \in 1 .. Len(@) |->
                [@[j] EXCEPT !.teams = IF Len(@) < 2 THEN <<>> ELSE @]]]]

WithoutPlayoffs(data) ==
    [i \in 1 .. Len(data) |->
        [data[i] EXCEPT !.matchups = SelectSeq(@, LAMBDA m : ~m.playoff)]]

\* The participant entries of the season the report is about
SeasonEntries == Entries(PaidSeason.matchups)

\* The positions of the entries with a positive score
Scored == {i \in 1 .. Len(SeasonEntries) : SeasonEntries[i].team.score > 0}

\* The weeks all of whose entries have score 0
UnplayedWeeks ==
    {SeasonEntries[i].week : i \in 1 .. Len(SeasonEntries)}
        \ {SeasonEntries[i].week : i \in Scored}

\* C11: a participant entry with score 0 never contributes to a scoring
\* statistic: every report (get_scoring_stats, get_season_stats,
\* get_head_to_head_stats, calculate_season_payouts) is what it would be with
\* the zero-score entries taken out; the score lists of get_scoring_stats hold
\* positive scores only, as many as there are positive entries, and its weekly
\* averages count positive entries only; a week whose entries all have score 0
\* has no weekly high.
C11_ZeroScoresExcluded ==
    Reported =>
        /\ svc_out = ReportOf(svc_call.op, WithoutZeroEntries(svc_data.data))
        /\ (svc_call.op = "get_scoring_stats" /\ "error" \notin DOMAIN svc_out) =>
              /\ \A i \in 1 .. Len(svc_out.highest_scores) : svc_out.highest_scores[i].score > 0
              /\ \A i \in 1 .. Len(svc_out.lowest_scores) : svc_out.lowest_scores[i].score > 0
              /\ svc_out.overall_stats.total_games = Cardinality(Scored)
              /\ \A i \in 1 .. Len(svc_out.weekly_averages) :
                    svc_out.weekly_averages[i].value.count =
                        Cardinality({k \in Scored :
                            SeasonEntries[k].week = svc_out.weekly_averages[i].key})
        /\ (svc_call.op = "get_scoring_stats" /\ "error" \in DOMAIN svc_out) => Scored = {}
        /\ svc_call.op = "get_season_stats" =>
              \A i \in 1 .. Len(svc_out.seasons) :
                  (svc_out.seasons[i].lowest_score = 0) <=> (Scored = {})
        /\ svc_call.op = "calculate_season_payouts" =>
              /\ \A w \in UnplayedWeeks : ~DictHas(svc_out.weekly_highs, w)
              /\ (svc_out.regular_season_leader = None) <=>
                    (\A k \in Scored : SeasonEntries[k].playoff)

\* Scoring statistics over a season with a positive score and a zero score in
\* week 1 and an unplayed week 2
C11_Witness ==
    /\ Reported
    /\ svc_call.op = "get_scoring_stats"
    /\ "error" \notin DOMAIN svc_out
    /\ \E i \in 1 .. Len(SeasonEntries) :
          SeasonEntries[i].week = 1 /\ SeasonEntries[i].team.score = 0
    /\ \E k \in Scored : SeasonEntries[k].week = 1
    /\ 2 \in UnplayedWeeks

\* C12: a matchup with fewer than two participants contributes nothing to a
\* scoring statistic, even when its participant has a positive score: every
\* report is what it would be with the participants of such matchups taken
\* out; the matchup is still counted as a matchup of the season.
C12_AsStated ==
    Reported =>
        /\ svc_out = ReportOf(svc_call.op, WithoutByes(svc_data.data))
        /\ svc_call.op = "get_season_stats" =>
              \A i \in 1 .. Len(svc_out.seasons) :
                  svc_out.seasons[i].total_games + svc_out.seasons[i].playoff_games
                      = Len(PaidSeason.matchups)

\* The owners of the season's participant entries
EntryOwners == {SeasonEntries[i].team.owner : i \in 1 .. Len(SeasonEntries)}

\* The sum of the owner's positive scores in non-playoff matchups
RegularTotal(owner) ==
    Sum([i \in 1 .. Len(SeasonEntries) |->
            IF /\ SeasonEntries[i].team.owner = owner
               /\ ~SeasonEntries[i].playoff
               /\ SeasonEntries[i].team.score > 0
            THEN SeasonEntries[i].team.score ELSE 0])

\* C15: in calculate_season_payouts the most-regular-season-points amount is
\* awarded to exactly one owner when some non-playoff entry has a positive
\* score and to nobody otherwise; the winner's total over non-playoff matchups
\* is at least every other owner's; the winner is the same with the playoff
\* matchups taken out.
C15_MostRegularSeasonPoints ==
    SummaryReturned =>
        LET winners == Recipients("Most Points (Regular)")
            lines == {l \in LedgerLines : l.line.type = "Most Points (Regular)"}
        IN  /\ Cardinality(lines) = (IF \E o \in EntryOwners : RegularTotal(o) > 0 THEN 1 ELSE 0)
            /\ Cardinality(winners) = Cardinality(lines)
            /\ \A l \in lines : l.line.amount = 40
            /\ \A w \in winners : \A o \in EntryOwners : RegularTotal(w) >= RegularTotal(o)
            /\ winners = RecipientsIn(
                   calculate_season_payouts(WithoutPlayoffs(svc_data.data), svc_call.season),
                   "Most Points (Regular)")

\* A season in which the owner with the most points overall is not the owner
\* with the most regular-season points
C15_Witness ==
    /\ SummaryReturned
    /\ \E w \in Recipients("Most Points (Regular)") : \E o \in EntryOwners :
          /\ RegularTotal(w) > RegularTotal(o)
          /\ Sum([i \in 1 .. Len(SeasonEntries) |->
                     IF SeasonEntries[i].team.owner = w
                     THEN SeasonEntries[i].team.score ELSE 0])
               < Sum([i \in 1 .. Len(SeasonEntries) |->
                         IF SeasonEntries[i].team.owner = o
                         THEN SeasonEntries[i].team.score ELSE 0])

\* The weeks with at least one positive score
ScoredWeeks == {SeasonEntries[i].week : i \in Scored}

\* The number of weeks of the summary the owner won
WeeksWon(owner) ==
    Cardinality({i \in 1 .. Len(svc_out.weekly_highs) :
                    svc_out.weekly_highs[i].value.owner = owner})

\* C16: in calculate_season_payouts every week with a positive score has
\* exactly one weekly-high winner, an owner whose score that week is the
\* largest positive score of the week; no other week has a winner; an owner
\* who won k >= 1 weeks holds one weekly-high line of k times the amount, an
\* owner who won none holds none, so the units awarded are as many as the
\* weeks with a positive score.
C16_WeeklyHighs ==
    SummaryReturned =>
        /\ {svc_out.weekly_highs[i].key : i \in 1 .. Len(svc_out.weekly_highs)} = ScoredWeeks
        /\ Len(svc_out.weekly_highs) = Cardinality(ScoredWeeks)
        /\ \A i \in 1 .. Len(svc_out.weekly_highs) :
              LET high == svc_out.weekly_highs[i] IN
              /\ \E k \in Scored :
                    /\ SeasonEntries[k].week = high.key
                    /\ SeasonEntries[k].team.score = high.value.score
                    /\ SeasonEntries[k].team.owner = high.value.owner
              /\ \A k \in Scored :
                    SeasonEntries[k].week = high.key =>
                        SeasonEntries[k].team.score <= high.value.score
        /\ \A o \in EntryOwners \cup Recipients("Weekly High Scores") :
              LET lines == {l \in LedgerLines :
                               l.owner = o /\ l.line.type = "Weekly High Scores"}
              IN  /\ Cardinality(lines) = (IF WeeksWon(o) > 0 THEN 1 ELSE 0)
                  /\ \A l \in lines : l.line.amount = WeeksWon(o) * 10
        /\ Sum([i \in 1 .. Len(svc_out.payouts) |->
                   Sum([j \in 1 .. Len(svc_out.payouts[i].details) |->
                           IF svc_out.payouts[i].details[j].type = "Weekly High Scores"
                           THEN svc_out.payouts[i].details[j].amount ELSE 0])])
              = 10 * Cardinality(ScoredWeeks)

\* A season in which one owner won two weeks and a week had two matchups, the
\* later one with the lower scores
C16_Witness ==
    /\ SummaryReturned
    /\ \E o \in EntryOwners : WeeksWon(o) = 2
    /\ \E i \in Scored : \E k \in Scored :
          /\ i < k
          /\ SeasonEntries[i].week = SeasonEntries[k].week
          /\ SeasonEntries[i].team.owner # SeasonEntries[k].team.owner
          /\ SeasonEntries[i].team.score > SeasonEntries[k].team.score
          /\ \A m \in Scored : m > k => SeasonEntries[m].week # SeasonEntries[k].week


\* C22: a season with an empty matchup list is still covered by the
\* matchup-dependent reports, with zero-valued aggregates: get_season_stats
\* has an entry for the season with average, highest and lowest score 0, and
\* get_scoring_stats returns statistics, not an error result, when no matchup
\* has a valid score.
C22_AsStated ==
    Reported =>
        /\ (svc_call.op = "get_season_stats" /\ PaidSeason.matchups = <<>>) =>
              \E i \in 1 .. Len(svc_out.seasons) :
                  /\ svc_out.seasons[i].season = PaidSeason.season
                  /\ svc_out.seasons[i].average_score = 0
                  /\ svc_out.seasons[i].highest_score = 0
                  /\ svc_out.seasons[i].lowest_score = 0
        /\ (svc_call.op = "get_scoring_stats" /\ Scored = {}) =>
              "error" \notin DOMAIN svc_out
---------------------------------------------------------------------------
(* The payout service over a collection of several seasons                    *)
(* (specification SpecCumulative)                                             *)

\* Largest number of completed seasons (seasons before CURRENT_SEASON)
MaxCompleted == 2

\* A team view of four teams with the given final ranks (0: not ranked)
RankedTeamView(r1, r2, r3, r4) ==
    JObj([teams |-> <<JObj([id |-> 1, rankCalculatedFinal |-> r1, playoffSeed |-> 1]),
                      JObj([id |-> 2, rankCalculatedFinal |-> r2, playoffSeed |-> 2]),
                      JObj([id |-> 3, rankCalculatedFinal |-> r3, playoffSeed |-> 3]),
                      JObj([id |-> 4, rankCalculatedFinal |-> r4, playoffSeed |-> 4])>>])

\* The (team view, schedule view) pairs a season can be fetched as: two
\* finished seasons with different podiums and weekly winners, a finished
\* season without a schedule, and a season in progress
SeasonViews ==
    {<<RankedTeamView(1, 2, 3, 4),
       JObj([schedule |-> <<RawMatchup(1, "NONE", 1, 15000, 2, 10000),
                            RawMatchup(2, "NONE", 1, 10000, 3, 15000)>>])>>,
     <<RankedTeamView(2, 1, 4, 3),
       JObj([schedule |-> <<RawMatchup(1, "NONE", 2, 15000, 1, 10000),
                            RawMatchup(2, "WINNERS_BRACKET", 2, 16000, 3, 10000)>>])>>,
     <<RankedTeamView(3, 1, 2, 4), JObj([schedule |-> <<>>])>>,
     <<RankedTeamView(0, 0, 0, 0),
       JObj([schedule |-> <<RawMatchup(1, "NONE", 3, 12000, 4, 11000),
                            RawMatchup(2, "NONE", 1, 0, 2, 0)>>])>>}

\* What get_season_data(year) can return: a season as fetched, or the error
\* record when the fetch failed
SeasonPool(year) ==
    {NormalizeSeason(year, v[1], v[2]) : v \in SeasonViews}
    \cup {ErrorRecord(year, AllHostsFailed("HTTP 500"), NoInfo)}

\* What get_historical_data() can return for the n years from START_SEASON on
RECURSIVE Collections(_)
Collections(n) ==
    IF n = 0 THEN {<<>>}
    ELSE {Append(c, s) : c \in Collections(n - 1), s \in SeasonPool(START_SEASON + n - 1)}

InitCumulative ==
    /\ CURRENT_SEASON \in START_SEASON .. (START_SEASON + MaxCompleted)
    /\ pc = "idle"
    /\ season = START_SEASON
    /\ view = "none"
    /\ host_i = 1
    /\ last_error = "None"
    /\ contacted = <<>>
    /\ answers = <<>>
    /\ mr_result = Idle
    /\ team_data = Idle
    /\ historical_data = <<>>
    /\ partial_info = NoInfo
    /\ norm_in = Idle /\ norm_out = Idle
    /\ res_in = Idle /\ res_out = Idle
    /\ h2h_data = <<>> /\ h2h_phase = "idle" /\ h2h_out = Idle
    /\ svcIdle

\* _get_historical_data (lines 29-33): the cached collection, or with an empty
\* cache any collection get_historical_data can return for START_SEASON ..
\* CURRENT_SEASON
HistoricalData ==
    IF svc_data = Idle THEN Collections(CURRENT_SEASON - START_SEASON + 1)
    ELSE {svc_data.data}

\* calculate_season_payouts(year), for a year of the collection or the year
\* before its first
CallCalculateSeasonPayouts ==
    /\ \E data \in HistoricalData, year \in (START_SEASON - 1) .. CURRENT_SEASON :
          /\ svc_data' = Cached(data)
          /\ svc_call' = [op |-> "calculate_season_payouts", season |-> year]
          /\ svc_out' = calculate_season_payouts(data, year)
    /\ UNCHANGED <<pipelineVars, normVars, resVars, h2hVars, procVars>>

\* get_all_season_payouts()
CallAllSeasonPayouts ==
    /\ \E data \in HistoricalData :
          /\ svc_data' = Cached(data)
          /\ svc_call' = [op |-> "get_all_season_payouts", season |-> CURRENT_SEASON]
          /\ svc_out' = get_all_season_payouts(data, CURRENT_SEASON)
    /\ UNCHANGED <<pipelineVars, normVars, resVars, h2hVars, procVars>>

\* get_cumulative_payouts()
CallCumulativePayouts ==
    /\ \E data \in HistoricalData :
          /\ svc_data' = Cached(data)
          /\ svc_call' = [op |-> "get_cumulative_payouts", season |-> CURRENT_SEASON]
          /\ svc_out' = get_cumulative_payouts(data, CURRENT_SEASON)
    /\ UNCHANGED <<pipelineVars, normVars, resVars, h2hVars, procVars>>

NextCumulative ==
    \/ CallCalculateSeasonPayouts
    \/ CallAllSeasonPayouts
    \/ CallCumulativePayouts

SpecCumulative == InitCumulative /\ [][NextCumulative]_vars

\* The operation last called
Called(op) == svc_call # Idle /\ svc_call.op = op

\* The sum of the amounts of a list of ledger lines
AmountOf(details) == Sum([j \in 1 .. Len(details) |-> details[j].amount])

\* Conservation within one season summary
Conserved(summary) ==
    /\ summary.season_total =
          Sum([i \in 1 .. Len(summary.payouts) |-> summary.payouts[i].total_payout])
    /\ \A i \in 1 .. Len(summary.payouts) :
          summary.payouts[i].total_payout = AmountOf(summary.payouts[i].details)

\* The years of the cached collection before CURRENT_SEASON, ascending
CompletedYears ==
    SelectSeq([i \in 1 .. Len(svc_data.data) |-> svc_data.data[i].season],
              LAMBDA y : y < CURRENT_SEASON)

\* The summaries of the completed seasons, in the order of the collection
CompletedSummaries ==
    [i \in 1 .. Len(CompletedYears) |->
        calculate_season_payouts(svc_data.data, CompletedYears[i])]

\* C17: in every result of calculate_season_payouts season_total is the sum
\* of the owners' total_payout and each owner's total_payout is the sum of the
\* amounts of that owner's ledger lines; the same holds of every summary
\* get_all_season_payouts lists; in get_cumulative_payouts
\* total_league_payouts is the sum of season_total over the included seasons.
C17_Conservation ==
    /\ SummaryReturned => Conserved(svc_out)
    /\ Called("get_all_season_payouts") =>
          \A i \in 1 .. Len(svc_out.seasons) : Conserved(svc_out.seasons[i])
    /\ Called("get_cumulative_payouts") =>
          /\ svc_out.total_league_payouts =
                Sum([i \in 1 .. Len(CompletedSummaries) |-> CompletedSummaries[i].season_total])
          /\ svc_out.total_league_payouts =
                Sum([i \in 1 .. Len(svc_out.cumulative_payouts) |->
                        svc_out.cumulative_payouts[i].total_earnings])

\* A summary in which an owner holds three ledger lines, and a cumulative
\* result over two seasons that paid something
C17_Witness ==
    \/ /\ SummaryReturned
       /\ \E i \in 1 .. Len(svc_out.payouts) : Len(svc_out.payouts[i].details) >= 3
    \/ /\ Called("get_cumulative_payouts")
       /\ Len(CompletedSummaries) = 2
       /\ \A i \in 1 .. 2 : CompletedSummaries[i].season_total > 0

\* The years of the completed seasons, as a set
CompletedYearSet == {CompletedYears[i] : i \in 1 .. Len(CompletedYears)}

\* The summaries of the completed seasons, most recent first
CompletedMostRecentFirst ==
    [i \in 1 .. Len(CompletedSummaries) |->
        CompletedSummaries[Len(CompletedSummaries) + 1 - i]]

\* The years an owner record of a cumulative result lists earnings for
EarningYears(stats) ==
    {stats.earnings_by_season[k].key : k \in 1 .. Len(stats.earnings_by_season)}

\* The owners paid in a summary
PaidOwners(summary) == {summary.payouts[i].owner : i \in 1 .. Len(summary.payouts)}

\* C18: get_all_season_payouts lists exactly the seasons of the collection
\* whose year is less than CURRENT_SEASON, each with its own summary, and
\* get_cumulative_payouts is the fold over exactly those summaries: no year
\* >= CURRENT_SEASON is among an owner's earnings_by_season, and every earlier
\* year in which the owner was paid is.
C18_CompletedSeasonsOnly ==
    /\ Called("get_all_season_payouts") =>
          /\ Len(svc_out.seasons) = Len(CompletedYears)
          /\ svc_out.total_seasons = Len(CompletedYears)
          /\ {svc_out.seasons[i].season : i \in 1 .. Len(svc_out.seasons)} = CompletedYearSet
          /\ \A i \in 1 .. Len(svc_out.seasons) :
                /\ svc_out.seasons[i].season < CURRENT_SEASON
                /\ svc_out.seasons[i] =
                      calculate_season_payouts(svc_data.data, svc_out.seasons[i].season)
    /\ Called("get_cumulative_payouts") =>
          /\ svc_out = CumulativeFold(CompletedMostRecentFirst)
          /\ \A i \in 1 .. Len(svc_out.cumulative_payouts) :
                LET stats == svc_out.cumulative_payouts[i] IN
                EarningYears(stats) =
                    {y \in CompletedYearSet :
                        stats.owner \in PaidOwners(calculate_season_payouts(svc_data.data, y))}

\* The season in progress and an earlier season both paid something
CurrentAndEarlierPaid ==
    /\ calculate_season_payouts(svc_data.data, CURRENT_SEASON).season_total > 0
    /\ \E y \in CompletedYearSet :
          calculate_season_payouts(svc_data.data, y).season_total > 0

C18_Witness ==
    /\ Called("get_cumulative_payouts")
    /\ CurrentAndEarlierPaid
    /\ Len(CompletedYears) = MaxCompleted

\* The permutations of 1 .. n
Perms(n) == {p \in [1 .. n -> 1 .. n] : \A i, j \in 1 .. n : p[i] = p[j] => i = j}

\* The owner records of a cumulative result, earnings_by_season as the set of
\* its (season, amount) items
OwnerTotals(result) ==
    {[owner |-> r.owner, total_earnings |-> r.total_earnings,
      seasons_participated |-> r.seasons_participated,
      earnings_by_season |-> {r.earnings_by_season[k] : k \in 1 .. Len(r.earnings_by_season)},
      championships |-> r.championships, runner_ups |-> r.runner_ups,
      third_places |-> r.third_places, fourth_places |-> r.fourth_places,
      weekly_highs |-> r.weekly_highs, most_points_regular |-> r.most_points_regular] :
        r \in {result.cumulative_payouts[i] : i \in 1 .. Len(result.cumulative_payouts)}}

\* C19: folding the completed seasons' summaries in any order gives every
\* owner the same total_earnings, seasons_participated, earnings_by_season
\* and category counts as get_cumulative_payouts returned, and the same
\* total_league_payouts.
C19_FoldOrderIndependent ==
    Called("get_cumulative_payouts") =>
        \A p \in Perms(Len(CompletedSummaries)) :
            LET folded == CumulativeFold([i \in 1 .. Len(CompletedSummaries) |->
                                             CompletedSummaries[p[i]]])
            IN  /\ OwnerTotals(folded) = OwnerTotals(svc_out)
                /\ folded.total_league_payouts = svc_out.total_league_payouts

\* An owner was paid different amounts in two folded seasons
C19_Witness ==
    /\ Called("get_cumulative_payouts")
    /\ \E i \in 1 .. Len(svc_out.cumulative_payouts) :
          LET e == svc_out.cumulative_payouts[i].earnings_by_season IN
          /\ Len(e) = 2
          /\ e[1].value # e[2].value

\* The number of completed seasons in which the owner holds a line of the type
SeasonsAwarded(owner, type) ==
    Cardinality({i \in 1 .. Len(CompletedSummaries) :
                    owner \in RecipientsIn(CompletedSummaries[i], type)})

\* The number of weeks the owner won across the completed seasons
WeeksWonAcross(owner) ==
    Sum([i \in 1 .. Len(CompletedSummaries) |->
            Cardinality({k \in 1 .. Len(CompletedSummaries[i].weekly_highs) :
                            CompletedSummaries[i].weekly_highs[k].value.owner = owner})])

\* C20: in get_cumulative_payouts every owner paid in a completed season has
\* a record, whose championships, runner_ups, third_places, fourth_places and
\* most_points_regular are the numbers of completed seasons in which the
\* owner holds that ledger line, and whose weekly_highs is the number of
\* weeks the owner won across the completed seasons.
C20_CategoryCounts ==
    Called("get_cumulative_payouts") =>
        /\ {svc_out.cumulative_payouts[i].owner : i \in 1 .. Len(svc_out.cumulative_payouts)}
              = UNION {PaidOwners(CompletedSummaries[i]) : i \in 1 .. Len(CompletedSummaries)}
        /\ \A i \in 1 .. Len(svc_out.cumulative_payouts) :
              LET r == svc_out.cumulative_payouts[i] IN
              /\ r.championships = SeasonsAwarded(r.owner, "Champion")
              /\ r.runner_ups = SeasonsAwarded(r.owner, "Runner-Up")
              /\ r.third_places = SeasonsAwarded(r.owner, "3rd Place")
              /\ r.fourth_places = SeasonsAwarded(r.owner, "4th Place")
              /\ r.most_points_regular = SeasonsAwarded(r.owner, "Most Points (Regular)")
              /\ r.weekly_highs = WeeksWonAcross(r.owner)

\* An owner won several weeks in each of two seasons and two championships
C20_Witness ==
    /\ Called("get_cumulative_payouts")
    /\ \E i \in 1 .. Len(svc_out.cumulative_payouts) :
          /\ svc_out.cumulative_payouts[i].weekly_highs >= 3
          /\ svc_out.cumulative_payouts[i].championships = 2


\* The years that have a record in the collection
RecordedYears(data) == {data[i].season : i \in 1 .. Len(data)}

\* C23: calculate_season_payouts(year) for a year without a record in the
\* collection returns a mapping whose only field is "error" (and for a year
\* with a record it returns no "error" field); the call leaves a cached
\* collection as it was, so the result of the operation for every other year
\* is what it was before the call.
C23_MissingSeason ==
    [][(svc_call' # Idle /\ svc_call'.op = "calculate_season_payouts") =>
          /\ svc_call'.season \notin RecordedYears(svc_data'.data) =>
                DOMAIN svc_out' = {"error"}
          /\ svc_call'.season \in RecordedYears(svc_data'.data) =>
                "error" \notin DOMAIN svc_out'
          /\ svc_data # Idle =>
                /\ svc_data' = svc_data
                /\ \A year \in RecordedYears(svc_data.data) :
                      calculate_season_payouts(svc_data'.data, year)
                          = calculate_season_payouts(svc_data.data, year)]_vars

\* calculate_season_payouts was called for the year before the first season
\* of a collection of three seasons and returned an error result
C23_Witness ==
    /\ Called("calculate_season_payouts")
    /\ svc_call.season = START_SEASON - 1
    /\ Len(svc_data.data) = 3
    /\ "error" \in DOMAIN svc_out
---------------------------------------------------------------------------
(* services/analytics.py: get_champions_history and get_all_time_stats        *)
(*                                                                            *)
(* A set of strings is iterated in an order that depends on the hash seed of  *)
(* the process and is the same each time the same set is built in one         *)
(* process; set_order lists the owner names in that order.                    *)

\* for owner in all_owners (line 100): the members of the set in iteration order
SetIter(S) == SelectSeq(set_order, LAMBDA x : x \in S)

\* The number of entries of a list of title records with the given owner
\* (Counter, lines 78 and 88)
TitleCount(infos, owner) ==
    Cardinality({i \in 1 .. Len(infos) : infos[i].owner = owner})

\* [info["season"] for info in infos if info["owner"] == owner] (lines 105-112)
TitleSeasons(infos, owner) ==
    LET own == SelectSeq(infos, LAMBDA info : info.owner = owner)
    IN  [i \in 1 .. Len(own) |-> own[i].season]

\* Lines 73-96: champions_by_season (role "champion") or runner_ups_by_season
\* (role "runner_up"), in the order of the collection
TitleInfos(data, role) ==
    LET team(s) == IF role = "champion" THEN s.champion ELSE s.runner_up
        titled == SelectSeq(data, LAMBDA s : team(s) # None)
    IN  [i \in 1 .. Len(titled) |->
            [season |-> titled[i].season,
             team_name |-> team(titled[i]).name,
             owner |-> team(titled[i]).owner,
             record |-> team(titled[i]).record]]

\* Mutant of TitleKey: runner-up finishes count before championships
TitleKey_RunnerUpsFirst(x, n) == x.runner_ups * (n + 1) + x.championships

\* key=lambda x: (x["championships"], x["runner_ups"]) (line 118) as one
\* number; n is a number neither count exceeds
TitleKey(x, n) == x.championships * (n + 1) + x.runner_ups

\* Lines 98-127: the owner summary, sorted, and the result
ChampionsHistory(champions_by_season, runner_ups_by_season) ==
    LET all_owners ==
            {champions_by_season[i].owner : i \in 1 .. Len(champions_by_season)}
            \cup {runner_ups_by_season[i].owner : i \in 1 .. Len(runner_ups_by_season)}
        n == Len(champions_by_season) + Len(runner_ups_by_season)
        owner_stats(owner) ==
            [owner |-> owner,
             championships |-> TitleCount(champions_by_season, owner),
             runner_ups |-> TitleCount(runner_ups_by_season, owner),
             championship_seasons |-> TitleSeasons(champions_by_season, owner),
             runner_up_seasons |-> TitleSeasons(runner_ups_by_season, owner),
             total_finals |-> TitleCount(champions_by_season, owner)
                              + TitleCount(runner_ups_by_season, owner)]
        keyed(owners) ==
            [i \in 1 .. Len(owners) |->
                <<0 - TitleKey(owner_stats(owners[i]), n), owner_stats(owners[i])>>]
    IN  [by_season |-> champions_by_season,
         runner_ups_by_season |-> runner_ups_by_season,
         by_owner |-> Items(SortKeyed(keyed(SetIter(all_owners)))),
         total_seasons |-> Len(champions_by_season)]

\* get_champions_history() on the cached collection
get_champions_history(data) ==
    ChampionsHistory(TitleInfos(data, "champion"), TitleInfos(data, "runner_up"))

\* The value the default factory of owner_stats creates (lines 298-312)
NewAllTimeStats ==
    [games_played |-> 0, wins |-> 0, losses |-> 0, ties |-> 0, points_for |-> 0,
     points_against |-> 0, seasons_played |-> 0, playoff_appearances |-> 0,
     championships |-> 0, runner_ups |-> 0, seasons |-> <<>>,
     championship_years |-> <<>>, runner_up_years |-> <<>>]

\* Lines 323-343: one team of a season is added to its owner's statistics.
\* Points are in hundredths, so round(x, 2) leaves them as they are.
AddTeamStats(stats, season_data, team) ==
    LET record == team.record
        wins == PyGet(record, "wins", 0)
        losses == PyGet(record, "losses", 0)
        ties == PyGet(record, "ties", 0)
        is_champion == season_data.champion # None /\ season_data.champion.owner = team.owner
        is_runner_up == season_data.runner_up # None /\ season_data.runner_up.owner = team.owner
    IN  [stats EXCEPT
            !.seasons_played = @ + 1,
            !.wins = @ + wins,
            !.losses = @ + losses,
            !.ties = @ + ties,
            !.points_for = @ + PyGet(record, "pointsFor", 0),
            !.points_against = @ + PyGet(record, "pointsAgainst", 0),
            !.games_played = @ + wins + losses + ties,
            !.seasons = Append(@, season_data.season),
            !.playoff_appearances =
                IF team.playoff_seed > 0 \/ team.final_rank <= 6 THEN @ + 1 ELSE @,
            !.championships = IF is_champion THEN @ + 1 ELSE @,
            !.championship_years = IF is_champion THEN Append(@, season_data.season) ELSE @,
            !.runner_ups = IF is_runner_up THEN @ + 1 ELSE @,
            !.runner_up_years = IF is_runner_up THEN Append(@, season_data.season) ELSE @]

\* Lines 316-343 for one season: its teams are added in order
AddSeasonStats(owner_stats, season_data) ==
    LET f[i \in 0 .. Len(season_data.teams)] ==
            IF i = 0 THEN owner_stats
            ELSE LET team == season_data.teams[i] IN
                 DictSet(f[i - 1], team.owner,
                         AddTeamStats(DictGet(f[i - 1], team.owner, NewAllTimeStats),
                                      season_data, team))
    IN  f[Len(season_data.teams)]

\* Lines 316-343: owner_stats after the loop over the collection
OwnerStats(data) ==
    LET f[i \in 0 .. Len(data)] ==
            IF i = 0 THEN <<>> ELSE AddSeasonStats(f[i - 1], data[i])
    IN  f[Len(data)]

\* max(seq) of a non-empty list of numbers
MaxOf(seq) == CHOOSE m \in {seq[i] : i \in 1 .. Len(seq)} : \A i \in 1 .. Len(seq) : seq[i] <= m

\* Lines 356-373: the record of one owner with at least one game.
\* win_percentage and playoff_percentage are in thousandths, the averages in
\* hundredths of a point.
LeaderStats(item) ==
    [owner |-> item.key,
     win_percentage |-> RoundedAverage(1000 * item.value.wins, item.value.games_played),
     avg_points_per_season |->
         RoundedAverage(item.value.points_for, item.value.seasons_played),
     avg_points_against_per_season |->
         RoundedAverage(item.value.points_against, item.value.seasons_played),
     playoff_percentage |->
         RoundedAverage(1000 * item.value.playoff_appearances, item.value.seasons_played),
     games_played |-> item.value.games_played,
     wins |-> item.value.wins,
     losses |-> item.value.losses,
     ties |-> item.value.ties,
     points_for |-> item.value.points_for,
     points_against |-> item.value.points_against,
     seasons_played |-> item.value.seasons_played,
     playoff_appearances |-> item.value.playoff_appearances,
     championships |-> item.value.championships,
     runner_ups |-> item.value.runner_ups,
     seasons |-> item.value.seasons,
     championship_years |-> item.value.championship_years,
     runner_up_years |-> item.value.runner_up_years]

\* Lines 354-373: all_time_leaders, in the order of owner_stats
AllTimeLeaders(owner_stats) ==
    LET played == SelectSeq(owner_stats, LAMBDA item : item.value.games_played > 0)
    IN  [i \in 1 .. Len(played) |-> LeaderStats(played[i])]

\* Mutant of ChampionshipKey: the most recent championship year is left out
ChampionshipKey_CountOnly(x) == x.championships * 10000

\* Lines 383-386: (championships, most recent championship year or 0) as one
\* number; years have four digits
ChampionshipKey(x) ==
    x.championships * 10000
    + (IF x.championship_years # <<>> THEN MaxOf(x.championship_years) ELSE 0)

\* The key of each of the four leaderboards (lines 376-388)
LeaderKey(board, x) ==
    CASE board = "most_wins" -> x.wins
      [] board = "highest_win_percentage" -> x.win_percentage
      [] board = "most_points" -> x.points_for
      [] board = "most_championships" -> ChampionshipKey(x)

\* sorted[:5]
TopFive(sorted) == SubSeq(sorted, 1, Min(5, Len(sorted)))

\* sorted(all_time_leaders, key=..., reverse=True)[:5] (lines 376-397)
Leaderboard(board, all_time_leaders) ==
    TopFive(Items(SortKeyed([i \in 1 .. Len(all_time_leaders) |->
                <<0 - LeaderKey(board, all_time_leaders[i]), all_time_leaders[i]>>])))

\* Lines 346-350 over the collection: the valid scores, in the order visited
AllTimeScores(data) ==
    LET entries == Entries(AllMatchups(data))
        valid == SelectSeq(entries, LAMBDA e : ValidScore(e.team.score))
    IN  [i \in 1 .. Len(valid) |-> valid[i].team.score]

\* Lines 390-399: the result
AllTimeResult(all_time_leaders, all_time_scores, total_seasons) ==
    [all_time_records |-> all_time_leaders,
     leaders |-> [most_wins |-> Leaderboard("most_wins", all_time_leaders),
                  highest_win_percentage |->
                      Leaderboard("highest_win_percentage", all_time_leaders),
                  most_points |-> Leaderboard("most_points", all_time_leaders),
                  most_championships |->
                      Leaderboard("most_championships", all_time_leaders)],
     league_totals |->
         [total_games |-> Sum([i \in 1 .. Len(all_time_leaders) |->
                                  all_time_leaders[i].games_played]),
          total_points |-> Sum([i \in 1 .. Len(all_time_leaders) |->
                                   all_time_leaders[i].points_for]),
          average_score_all_time |->
              IF all_time_scores # <<>>
              THEN RoundedAverage(Sum(all_time_scores), Len(all_time_scores)) ELSE 0,
          total_seasons |-> total_seasons]]

\* get_all_time_stats() on the cached collection
get_all_time_stats(data) ==
    AllTimeResult(AllTimeLeaders(OwnerStats(data)), AllTimeScores(data), Len(data))

---------------------------------------------------------------------------
(* The title and leaderboard reports over a collection of several seasons     *)
(* (specification SpecLeaders)                                                *)

\* A raw team with a final rank and an overall record; points in hundredths
LeaderTeam(id, rank, wins, losses, points) ==
    JObj([id |-> id, rankCalculatedFinal |-> rank, playoffSeed |-> rank,
          record |-> [overall |-> [wins |-> wins, losses |-> losses,
                                   pointsFor |-> points, pointsAgainst |-> 100000]]])

\* The team views a season can be fetched as: two seasons of six owners with
\* different champions and records, a season in which two teams have no
\* mapped owner (one of them the champion), and a season whose teams have no
\* record yet
LeaderTeamViews ==
    {JObj([teams |-> <<LeaderTeam(1, 1, 10, 3, 150000), LeaderTeam(2, 2, 8, 5, 140000),
                       LeaderTeam(3, 3, 6, 7, 145000), LeaderTeam(4, 4, 5, 8, 120000),
                       LeaderTeam(5, 5, 3, 10, 110000), LeaderTeam(6, 6, 1, 12, 100000)>>]),
     JObj([teams |-> <<LeaderTeam(1, 2, 6, 7, 130000), LeaderTeam(2, 1, 8, 5, 140000),
                       LeaderTeam(3, 6, 1, 12, 90000), LeaderTeam(4, 3, 10, 3, 150000),
                       LeaderTeam(5, 4, 5, 8, 115000), LeaderTeam(6, 5, 7, 6, 125000)>>]),
     JObj([teams |-> <<LeaderTeam(11, 1, 9, 4, 150000), LeaderTeam(1, 2, 8, 5, 140000),
                       LeaderTeam(12, 3, 4, 9, 120000)>>]),
     JObj([teams |-> <<JObj([id |-> 1, rankCalculatedFinal |-> 1]),
                       JObj([id |-> 2, rankCalculatedFinal |-> 2])>>])}

\* What get_season_data(year) can return: a season as fetched (one played
\* week), or the error record when the fetch failed
LeaderSeasonPool(year) ==
    {NormalizeSeason(year, tv, JObj([schedule |-> <<RawMatchup(1, "NONE", 1, 15000, 2, 10000)>>])) :
        tv \in LeaderTeamViews}
    \cup {ErrorRecord(year, AllHostsFailed("HTTP 500"), NoInfo)}

\* What get_historical_data() can return for the n years from START_SEASON on
RECURSIVE LeaderCollections(_)
LeaderCollections(n) ==
    IF n = 0 THEN {<<>>}
    ELSE {Append(c, s) : c \in LeaderCollections(n - 1),
                         s \in LeaderSeasonPool(START_SEASON + n - 1)}

\* The owners that reach a final in some season of the pool
FinalistNames == <<"Dan Costa", "Greg Costa", "Unknown Owner">>

\* The orders in which a process can iterate a set of these names
SetOrders ==
    {[i \in 1 .. Len(FinalistNames) |-> FinalistNames[p[i]]] : p \in Perms(Len(FinalistNames))}

InitLeaders ==
    /\ CURRENT_SEASON \in START_SEASON .. (START_SEASON + MaxCompleted)
    /\ pc = "idle"
    /\ season = START_SEASON
    /\ view = "none"
    /\ host_i = 1
    /\ last_error = "None"
    /\ contacted = <<>>
    /\ answers = <<>>
    /\ mr_result = Idle
    /\ team_data = Idle
    /\ historical_data = <<>>
    /\ partial_info = NoInfo
    /\ norm_in = Idle /\ norm_out = Idle
    /\ res_in = Idle /\ res_out = Idle
    /\ h2h_data = <<>> /\ h2h_phase = "idle" /\ h2h_out = Idle
    /\ svc_data = Idle /\ svc_call = Idle /\ svc_out = Idle
    /\ svc_fetches = 0 /\ threads = <<>>
    /\ set_order \in SetOrders

\* _get_historical_data (lines 19-23): the cached collection, or with an empty
\* cache any collection get_historical_data can return
LeaderData ==
    IF svc_data = Idle THEN LeaderCollections(CURRENT_SEASON - START_SEASON + 1)
    ELSE {svc_data.data}

\* get_champions_history()
CallChampionsHistory ==
    /\ \E data \in LeaderData :
          /\ svc_data' = Cached(data)
          /\ svc_call' = [op |-> "get_champions_history", season |-> CURRENT_SEASON]
          /\ svc_out' = get_champions_history(data)
    /\ UNCHANGED <<pipelineVars, normVars, resVars, h2hVars, procVars>>

\* get_all_time_stats()
CallAllTimeStats ==
    /\ \E data \in LeaderData :
          /\ svc_data' = Cached(data)
          /\ svc_call' = [op |-> "get_all_time_stats", season |-> CURRENT_SEASON]
          /\ svc_out' = get_all_time_stats(data)
    /\ UNCHANGED <<pipelineVars, normVars, resVars, h2hVars, procVars>>

NextLeaders == CallChampionsHistory \/ CallAllTimeStats

SpecLeaders == InitLeaders /\ [][NextLeaders]_vars

\* The seasons of the cached collection whose champion has the given owner
SeasonsWonBy(owner) ==
    {i \in 1 .. Len(svc_data.data) :
        /\ svc_data.data[i].champion # None
        /\ svc_data.data[i].champion.owner = owner}

\* The seasons of the cached collection whose runner-up has the given owner
SeasonsSecondBy(owner) ==
    {i \in 1 .. Len(svc_data.data) :
        /\ svc_data.data[i].runner_up # None
        /\ svc_data.data[i].runner_up.owner = owner}

\* The owners that are champion or runner-up of some season of the collection
Finalists ==
    {svc_data.data[i].champion.owner :
        i \in {i \in 1 .. Len(svc_data.data) : svc_data.data[i].champion # None}}
    \cup {svc_data.data[i].runner_up.owner :
        i \in {i \in 1 .. Len(svc_data.data) : svc_data.data[i].runner_up # None}}

\* C21: in get_champions_history by_owner has one entry per owner that is
\* champion or runner-up of some season, its championships and runner_ups are
\* the numbers of seasons whose champion, respectively runner-up, has that
\* owner, the pairs (championships, runner_ups) are lexicographically
\* non-increasing along by_owner, and an owner who is champion in two of
\* three seasons is listed first with championships = 2.
C21_TitlesByOwner ==
    Called("get_champions_history") =>
        LET by_owner == svc_out.by_owner IN
        /\ {by_owner[i].owner : i \in 1 .. Len(by_owner)} = Finalists
        /\ Len(by_owner) = Cardinality(Finalists)
        /\ \A i \in 1 .. Len(by_owner) :
              /\ by_owner[i].championships = Cardinality(SeasonsWonBy(by_owner[i].owner))
              /\ by_owner[i].runner_ups = Cardinality(SeasonsSecondBy(by_owner[i].owner))
        /\ \A i, j \in 1 .. Len(by_owner) :
              i < j =>
                 \/ by_owner[i].championships > by_owner[j].championships
                 \/ /\ by_owner[i].championships = by_owner[j].championships
                    /\ by_owner[i].runner_ups >= by_owner[j].runner_ups
        /\ \A owner \in Finalists :
              Len(svc_data.data) = 3 /\ Cardinality(SeasonsWonBy(owner)) = 2 =>
                 by_owner[1].owner = owner /\ by_owner[1].championships = 2

\* Three seasons, one owner champion of two of them and with fewer runner-up
\* finishes than another finalist
C21_Witness ==
    /\ Called("get_champions_history")
    /\ Len(svc_data.data) = 3
    /\ Len(svc_out.by_owner) >= 2
    /\ svc_out.by_owner[1].championships = 2
    /\ svc_out.by_owner[1].runner_ups < svc_out.by_owner[2].runner_ups

\* The number of games in the records of the owner's teams in the collection
GamesOf(owner) ==
    Sum([i \in 1 .. Len(svc_data.data) |->
            Sum([j \in 1 .. Len(svc_data.data[i].teams) |->
                    LET team == svc_data.data[i].teams[j] IN
                    IF team.owner = owner
                    THEN PyGet(team.record, "wins", 0) + PyGet(team.record, "losses", 0)
                         + PyGet(team.record, "ties", 0)
                    ELSE 0])])

\* The owners of the collection with at least one game
OwnersWithGames ==
    {o \in UNION {{svc_data.data[i].teams[j].owner : j \in 1 .. Len(svc_data.data[i].teams)} :
                     i \in 1 .. Len(svc_data.data)} : GamesOf(o) > 0}

Boards == {"most_wins", "highest_win_percentage", "most_points", "most_championships"}

\* The value a leaderboard is ordered by, as reported in the owner's record
BoardValue(board, x) ==
    CASE board = "most_wins" -> x.wins
      [] board = "highest_win_percentage" -> x.win_percentage
      [] board = "most_points" -> x.points_for
      [] board = "most_championships" -> x.championships

\* The owner's most recent championship year as reported, 0 without one
LastTitleYear(x) ==
    IF x.championship_years = <<>> THEN 0
    ELSE CHOOSE y \in {x.championship_years[i] : i \in 1 .. Len(x.championship_years)} :
             \A i \in 1 .. Len(x.championship_years) : x.championship_years[i] <= y

\* C28: in get_all_time_stats each of the four leaderboards has min(5, number
\* of owners with at least one game) entries, all of them records of such
\* owners, is non-increasing by its key, and leaves out no owner whose key is
\* larger than that of a listed owner; in most_championships owners with
\* equal championships are ordered by most recent championship year,
\* descending.
C28_Leaderboards ==
    Called("get_all_time_stats") =>
        LET records == {svc_out.all_time_records[i] : i \in 1 .. Len(svc_out.all_time_records)}
        IN  /\ {r.owner : r \in records} = OwnersWithGames
            /\ \A board \in Boards :
                  LET L == svc_out.leaders[board]
                      listed == {L[i] : i \in 1 .. Len(L)}
                  IN  /\ Len(L) = Min(5, Cardinality(OwnersWithGames))
                      /\ Cardinality({r.owner : r \in listed}) = Len(L)
                      /\ listed \subseteq records
                      /\ \A i, j \in 1 .. Len(L) :
                            i < j => BoardValue(board, L[i]) >= BoardValue(board, L[j])
                      /\ \A r \in records \ listed : \A x \in listed :
                            BoardValue(board, x) >= BoardValue(board, r)
            /\ LET L == svc_out.leaders.most_championships IN
               \A i, j \in 1 .. Len(L) :
                  i < j /\ L[i].championships = L[j].championships =>
                     LastTitleYear(L[i]) >= LastTitleYear(L[j])

\* Six owners with games, five listed, and two listed owners with one
\* championship each, won in different years
C28_Witness ==
    /\ Called("get_all_time_stats")
    /\ Cardinality(OwnersWithGames) >= 6
    /\ Len(svc_out.leaders.most_wins) = 5
    /\ \E i, j \in 1 .. Len(svc_out.leaders.most_championships) :
          LET L == svc_out.leaders.most_championships IN
          /\ i < j
          /\ L[i].championships = 1 /\ L[j].championships = 1
          /\ LastTitleYear(L[i]) > LastTitleYear(L[j])

\* C30: for every owner get_all_time_stats reports, its championships and
\* runner_ups are the numbers of seasons whose champion, respectively
\* runner-up, has that owner, and equal the counts get_champions_history
\* reports for the owner on the same collection.
C30_AsStated ==
    Called("get_all_time_stats") =>
        \A i \in 1 .. Len(svc_out.all_time_records) :
            LET r == svc_out.all_time_records[i]
                by_owner == get_champions_history(svc_data.data).by_owner
            IN  /\ r.championships = Cardinality(SeasonsWonBy(r.owner))
                /\ r.runner_ups = Cardinality(SeasonsSecondBy(r.owner))
                /\ \A k \in 1 .. Len(by_owner) :
                      by_owner[k].owner = r.owner =>
                         /\ by_owner[k].championships = r.championships
                         /\ by_owner[k].runner_ups = r.runner_ups

---------------------------------------------------------------------------
(* get_season_data over schedules whose entries differ in period, bracket    *)
(* tag and sides (specification SpecSchedule)                                *)

\* Largest number of entries in the schedule view
MaxScheduleEntries == 2

\* One side of a schedule entry
RawSide(team, points) == [teamId |-> team, totalPoints |-> points]

\* The schedule entries: periods absent, negative, 0 and positive; bracket
\* tags absent, "NONE", winners' and another bracket; sides with different
\* teams, the same team, a team that is not in the team view, team id 0,
\* a missing side and missing points
ScheduleEntryPool ==
    {JObj([matchupPeriodId |-> 1, away |-> RawSide(1, 15000), home |-> RawSide(2, 10000)]),
     JObj([matchupPeriodId |-> 1, playoffTierType |-> "NONE",
           away |-> RawSide(2, 12000), home |-> RawSide(3, 11000)]),
     JObj([matchupPeriodId |-> 2, playoffTierType |-> "WINNERS_BRACKET",
           away |-> RawSide(1, 20000), home |-> RawSide(2, 10000)]),
     JObj([matchupPeriodId |-> 2, playoffTierType |-> "LOSERS_CONSOLATION_LADDER",
           away |-> RawSide(3, 9000), home |-> RawSide(1, 8000)]),
     JObj([matchupPeriodId |-> 0, playoffTierType |-> "WINNERS_BRACKET",
           away |-> RawSide(1, 14000), home |-> RawSide(2, 13000)]),
     JObj([matchupPeriodId |-> 0 - 1, playoffTierType |-> "NONE",
           away |-> RawSide(2, 14000), home |-> RawSide(3, 13000)]),
     JObj([playoffTierType |-> "WINNERS_BRACKET",
           away |-> RawSide(3, 16000), home |-> RawSide(1, 13000)]),
     JObj([matchupPeriodId |-> 1, playoffTierType |-> "NONE",
           away |-> RawSide(1, 15000), home |-> RawSide(1, 10000)]),
     JObj([matchupPeriodId |-> 2, playoffTierType |-> "NONE", home |-> RawSide(2, 18000)]),
     JObj([matchupPeriodId |-> 1, playoffTierType |-> "NONE", away |-> RawSide(3, 7000)]),
     JObj([matchupPeriodId |-> 1, playoffTierType |-> "NONE",
           away |-> [teamId |-> 1], home |-> [teamId |-> 2]]),
     JObj([matchupPeriodId |-> 2, playoffTierType |-> "WINNERS_BRACKET",
           away |-> RawSide(11, 13000), home |-> RawSide(2, 14000)]),
     JObj([matchupPeriodId |-> 1, playoffTierType |-> "NONE",
           away |-> RawSide(0, 5000), home |-> RawSide(2, 6000)])}

RECURSIVE ScheduleLists(_)
ScheduleLists(n) ==
    IF n = 0 THEN {<<>>}
    ELSE {Append(l, m) : l \in ScheduleLists(n - 1), m \in ScheduleEntryPool}

ScheduleViews ==
    {JObj([schedule |-> l]) : l \in UNION {ScheduleLists(n) : n \in 0 .. MaxScheduleEntries}}

InitSchedule ==
    /\ pipelineIdle
    /\ norm_in = Idle /\ norm_out = Idle
    /\ res_in = Idle /\ res_out = Idle
    /\ h2h_data = <<>> /\ h2h_phase = "idle" /\ h2h_out = Idle
    /\ svcIdle

\* get_season_data(season) with the team view of three teams and a schedule
\* view as fetched; the call keeps no state, so a behaviour has one call
GetSeasonSchedule ==
    \E mv \in ScheduleViews :
        /\ norm_in = Idle
        /\ norm_in' = [season |-> START_SEASON, team_view |-> ReportTeamView, matchup_view |-> mv]
        /\ norm_out' = NormalizeSeason(START_SEASON, ReportTeamView, mv)
        /\ UNCHANGED <<pipelineVars, resVars, h2hVars, svcVars, procVars>>

NextSchedule == GetSeasonSchedule

SpecSchedule == InitSchedule /\ [][NextSchedule]_vars

\* The schedule get_season_data was given
GivenSchedule == norm_in.matchup_view.d.schedule

\* The positions of the schedule entries with a period > 0
PositivePeriods ==
    {p \in 1 .. Len(GivenSchedule) :
        /\ "matchupPeriodId" \in DOMAIN GivenSchedule[p].d
        /\ GivenSchedule[p].d.matchupPeriodId > 0}

\* The schedule entry the k-th matchup of the record is built from
EntryOf(k) ==
    GivenSchedule[CHOOSE p \in PositivePeriods :
                      Cardinality({q \in PositivePeriods : q < p}) = k - 1].d

\* The team ids of the sides of a schedule entry that give a participant
SideIds(entry) ==
    (IF "away" \in DOMAIN entry /\ entry.away.teamId # 0 THEN <<entry.away.teamId>> ELSE <<>>)
    \o (IF "home" \in DOMAIN entry /\ entry.home.teamId # 0 THEN <<entry.home.teamId>> ELSE <<>>)

\* C26: get_season_data builds a matchup for exactly the schedule entries
\* whose matchupPeriodId is > 0, in schedule order (the k-th matchup has the
\* week and the sides of the k-th such entry), and the matchup's playoff flag
\* is true exactly when the entry's playoffTierType is "WINNERS_BRACKET".
C26_PeriodsAndPlayoffFlag ==
    norm_out # Idle =>
        /\ "error" \notin DOMAIN norm_out
        /\ Len(norm_out.matchups) = Cardinality(PositivePeriods)
        /\ \A k \in 1 .. Len(norm_out.matchups) :
              LET built == norm_out.matchups[k] IN
              /\ built.week = EntryOf(k).matchupPeriodId
              /\ [i \in 1 .. Len(built.teams) |-> built.teams[i].id.n] = SideIds(EntryOf(k))
              /\ built.playoff <=>
                    /\ "playoffTierType" \in DOMAIN EntryOf(k)
                    /\ EntryOf(k).playoffTierType = "WINNERS_BRACKET"

\* A schedule whose first entry is dropped and whose second entry is kept as
\* a playoff matchup
C26_Witness ==
    /\ norm_out # Idle
    /\ Len(GivenSchedule) = 2
    /\ PositivePeriods = {2}
    /\ Len(norm_out.matchups) = 1
    /\ norm_out.matchups[1].playoff

\* The points of a side of a schedule entry, 0 when absent
SidePoints(side) == IF "totalPoints" \in DOMAIN side THEN side.totalPoints ELSE 0

\* C27: in every matchup built by get_season_data the entry created for the
\* away side has the away totalPoints and the entry created for the home
\* side has the home totalPoints (0 when absent), also when both sides carry
\* the same identifier; a participant's owner is the owner of the season's
\* team with the same identifier; a matchup has at most two participants.
C27_AsStated ==
    norm_out # Idle =>
        \A k \in 1 .. Len(norm_out.matchups) :
            LET built == norm_out.matchups[k].teams
                entry == EntryOf(k)
                has_away == "away" \in DOMAIN entry /\ entry.away.teamId # 0
                has_home == "home" \in DOMAIN entry /\ entry.home.teamId # 0
            IN  /\ Len(built) <= 2
                /\ has_away =>
                      /\ built[1].id.n = entry.away.teamId
                      /\ built[1].score = SidePoints(entry.away)
                /\ has_home =>
                      /\ built[Len(built)].id.n = entry.home.teamId
                      /\ built[Len(built)].score = SidePoints(entry.home)
                /\ \A i \in 1 .. Len(built) : \A j \in 1 .. Len(norm_out.teams) :
                      norm_out.teams[j].id = built[i].id =>
                         norm_out.teams[j].owner = built[i].owner

---------------------------------------------------------------------------
(* One AnalyticsService object: report operations and clear_cache           *)
(* (specification SpecMemo)                                                  *)

\* The orders in which the process iterates the owners of the season pool
PoolSetOrders ==
    {<<"Dan Costa", "Greg Costa", "Scott Mackie", "Dan S">>,
     <<"Dan S", "Scott Mackie", "Greg Costa", "Dan Costa">>}

InitMemo ==
    /\ CURRENT_SEASON \in START_SEASON .. (START_SEASON + MaxSpan)
    /\ pc = "idle"
    /\ season = START_SEASON
    /\ view = "none"
    /\ host_i = 1
    /\ last_error = "None"
    /\ contacted = <<>>
    /\ answers = <<>>
    /\ mr_result = Idle
    /\ team_data = Idle
    /\ historical_data = <<>>
    /\ partial_info = NoInfo
    /\ norm_in = Idle /\ norm_out = Idle
    /\ res_in = Idle /\ res_out = Idle
    /\ h2h_data = <<>> /\ h2h_phase = "idle" /\ h2h_out = Idle
    /\ svc_data = Idle /\ svc_call = Idle /\ svc_out = Idle
    /\ svc_fetches = 0 /\ threads = <<>>
    /\ set_order \in PoolSetOrders

\* Mutant of CacheEmpty: the cache is never trusted
CacheEmpty_Always(cache) == TRUE

\* `if self._cached_historical_data is None:` (line 21)
CacheEmpty(cache) == cache = Idle

\* What the named report of AnalyticsService returns on a collection
AnalyticsReport(op, data) ==
    CASE op = "get_champions_history" -> get_champions_history(data)
      [] op = "get_scoring_stats" -> get_scoring_stats(data)
      [] op = "get_season_stats" -> get_season_stats(data)
      [] op = "get_all_time_stats" -> get_all_time_stats(data)
      [] op = "get_head_to_head_stats" -> get_head_to_head_stats(data)

\* A report operation: _get_historical_data (lines 19-23) fetches the
\* collection of all configured years when the cache is empty and keeps it,
\* otherwise it returns the cached collection; the report is computed from it
CallAnalytics(op) ==
    /\ \E data \in (IF CacheEmpty(svc_data)
                    THEN Collections(CURRENT_SEASON - START_SEASON + 1)
                    ELSE {svc_data.data}) :
          /\ svc_data' = IF CacheEmpty(svc_data) THEN Cached(data) ELSE svc_data
          /\ svc_fetches' = IF CacheEmpty(svc_data) THEN svc_fetches + 1 ELSE svc_fetches
          /\ svc_call' = [op |-> op, season |-> CURRENT_SEASON]
          /\ svc_out' = AnalyticsReport(op, data)
    /\ UNCHANGED <<pipelineVars, normVars, resVars, h2hVars, set_order, threads>>

MemoChampionsHistory == CallAnalytics("get_champions_history")
MemoScoringStats == CallAnalytics("get_scoring_stats")
MemoSeasonStats == CallAnalytics("get_season_stats")
MemoAllTimeStats == CallAnalytics("get_all_time_stats")
MemoHeadToHeadStats == CallAnalytics("get_head_to_head_stats")

\* clear_cache() (lines 483-485)
clear_cache ==
    /\ svc_data' = Idle
    /\ svc_fetches' = 0
    /\ svc_call' = [op |-> "clear_cache", season |-> CURRENT_SEASON]
    /\ svc_out' = None
    /\ UNCHANGED <<pipelineVars, normVars, resVars, h2hVars, set_order, threads>>

NextMemo ==
    \/ MemoChampionsHistory
    \/ MemoScoringStats
    \/ MemoSeasonStats
    \/ MemoAllTimeStats
    \/ MemoHeadToHeadStats
    \/ clear_cache

SpecMemo == InitMemo /\ [][NextMemo]_vars

\* The step is a report operation
ReportStep == svc_call' # Idle /\ svc_call'.op # "clear_cache"

\* C24: over any sequence of report operations and clear_cache calls the
\* collection is fetched only by an operation that finds the cache empty, so
\* at most once since the last clear_cache; an operation that finds a cached
\* collection leaves it in the cache and computes its report from it;
\* clear_cache leaves nothing in the cache, and the operation after it
\* fetches one record for every year from START_SEASON to CURRENT_SEASON.
C24_Memoization ==
    [][/\ svc_fetches' <= 1
       /\ svc_fetches' > svc_fetches => ReportStep /\ svc_data = Idle
       /\ (ReportStep /\ svc_data # Idle) =>
             /\ svc_data' = svc_data
             /\ svc_out' = AnalyticsReport(svc_call'.op, svc_data.data)
       /\ (ReportStep /\ svc_data = Idle) =>
             /\ svc_fetches' = svc_fetches + 1
             /\ svc_data' # Idle
             /\ [i \in 1 .. Len(svc_data'.data) |-> svc_data'.data[i].season]
                   = [i \in 1 .. (CURRENT_SEASON - START_SEASON + 1) |-> START_SEASON + i - 1]
             /\ svc_out' = AnalyticsReport(svc_call'.op, svc_data'.data)
       /\ ~ReportStep => svc_data' = Idle /\ svc_fetches' = 0]_vars

\* A report has been computed from a collection of two seasons that was
\* fetched once since the cache was last empty
C24_Witness ==
    /\ svc_call # Idle /\ svc_call.op = "get_season_stats"
    /\ svc_data # Idle /\ Len(svc_data.data) = 2
    /\ svc_fetches = 1
    /\ svc_out.total_seasons = 1

---------------------------------------------------------------------------
(* Repeated calls of the operations of one service object on its cached      *)
(* collection (specification SpecPure)                                       *)

AnalyticsOps ==
    {"get_champions_history", "get_scoring_stats", "get_season_stats",
     "get_all_time_stats", "get_head_to_head_stats"}

PayoutOps == {"calculate_season_payouts", "get_all_season_payouts", "get_cumulative_payouts"}

\* The calls: an operation and, for calculate_season_payouts, its year (a
\* year of the collection or the year before its first)
ServiceCalls ==
    {[op |-> op, season |-> CURRENT_SEASON] :
        op \in (AnalyticsOps \cup PayoutOps) \ {"calculate_season_payouts"}}
    \cup {[op |-> "calculate_season_payouts", season |-> y] :
             y \in (START_SEASON - 1) .. CURRENT_SEASON}

\* The name the result of a call is kept under
CallKey(call) ==
    IF call.op = "calculate_season_payouts"
    THEN call.op \o " " \o ToString(call.season)
    ELSE call.op

\* What the call returns on a collection
ResultOf(call, data) ==
    CASE call.op \in AnalyticsOps -> AnalyticsReport(call.op, data)
      [] call.op = "calculate_season_payouts" -> calculate_season_payouts(data, call.season)
      [] call.op = "get_all_season_payouts" -> get_all_season_payouts(data, CURRENT_SEASON)
      [] call.op = "get_cumulative_payouts" -> get_cumulative_payouts(data, CURRENT_SEASON)

InitPure ==
    /\ CURRENT_SEASON = START_SEASON + 1
    /\ pc = "idle"
    /\ season = START_SEASON
    /\ view = "none"
    /\ host_i = 1
    /\ last_error = "None"
    /\ contacted = <<>>
    /\ answers = <<>>
    /\ mr_result = Idle
    /\ team_data = Idle
    /\ historical_data = <<>>
    /\ partial_info = NoInfo
    /\ norm_in = Idle /\ norm_out = Idle
    /\ res_in = Idle /\ res_out = Idle
    /\ h2h_data = <<>> /\ h2h_phase = "idle" /\ h2h_out = Idle
    /\ svc_data = Idle /\ svc_call = Idle /\ svc_out = Idle
    /\ svc_fetches = 0 /\ threads = <<>>
    /\ set_order \in PoolSetOrders

\* A call on the service object the behaviour is about (an AnalyticsService
\* or a PayoutService, decided by its first call): _get_historical_data
\* returns the cached list, fetched by the first call; the cache holds the
\* list as the operation leaves it; svc_out keeps the latest result of every
\* call made so far
CallService(call) ==
    /\ svc_call # Idle => (svc_call.op \in AnalyticsOps <=> call.op \in AnalyticsOps)
    /\ \E data \in (IF svc_data = Idle
                    THEN Collections(CURRENT_SEASON - START_SEASON + 1)
                    ELSE {svc_data.data}) :
          /\ svc_data' = Cached(data)
          /\ svc_call' = call
          /\ svc_out' = (CallKey(call) :> ResultOf(call, data)) @@ svc_out
    /\ UNCHANGED <<pipelineVars, normVars, resVars, h2hVars, procVars>>

CallAnalyticsService == \E call \in ServiceCalls : call.op \in AnalyticsOps /\ CallService(call)
CallPayoutService == \E call \in ServiceCalls : call.op \in PayoutOps /\ CallService(call)

NextPure == CallAnalyticsService \/ CallPayoutService

SpecPure == InitPure /\ [][NextPure]_vars

---------------------------------------------------------------------------
(* Request threads inside _get_historical_data of one AnalyticsService, and  *)
(* clear_cache (specification SpecThreads)                                   *)

\* The number of request threads calling report operations
MaxThreads == 2

\* A thread outside _get_historical_data; value is what its last call returned
ThreadIdle == [pc |-> "idle", value |-> Idle]

InitThreads ==
    /\ pipelineIdle
    /\ norm_in = Idle /\ norm_out = Idle
    /\ res_in = Idle /\ res_out = Idle
    /\ h2h_data = <<>> /\ h2h_phase = "idle" /\ h2h_out = Idle
    /\ svc_data = Idle /\ svc_call = Idle /\ svc_out = Idle
    /\ svc_fetches = 0 /\ set_order = <<>>
    /\ threads = [t \in 1 .. MaxThreads |-> ThreadIdle]

\* One step of thread t in _get_historical_data (lines 19-23). Between two
\* steps other threads can run.
_get_historical_data(t) ==
    /\ \/ \* a report operation calls self._get_historical_data()
          /\ threads[t].pc \in {"idle", "returned"}
          /\ threads' = [threads EXCEPT ![t] = [pc |-> "check", value |-> Idle]]
          /\ UNCHANGED svc_data
       \/ \* `if self._cached_historical_data is None:` (line 21)
          /\ threads[t].pc = "check"
          /\ threads' = [threads EXCEPT
                            ![t].pc = IF CacheEmpty(svc_data) THEN "fetch" ELSE "return"]
          /\ UNCHANGED svc_data
       \/ \* self.espn_service.get_historical_data() (line 22, the call): one
          \* record for every configured year
          /\ threads[t].pc = "fetch"
          /\ \E data \in Collections(CURRENT_SEASON - START_SEASON + 1) :
                threads' = [threads EXCEPT ![t] = [pc |-> "assign", value |-> Cached(data)]]
          /\ UNCHANGED svc_data
       \/ \* self._cached_historical_data = <the fetched list> (line 22, the store)
          /\ threads[t].pc = "assign"
          /\ svc_data' = threads[t].value
          /\ threads' = [threads EXCEPT ![t] = [pc |-> "return", value |-> Idle]]
       \/ \* `return self._cached_historical_data` (line 23): the attribute is
          \* read again
          /\ threads[t].pc = "return"
          /\ threads' = [threads EXCEPT ![t] = [pc |-> "returned", value |-> svc_data]]
          /\ UNCHANGED svc_data
    /\ UNCHANGED <<pipelineVars, normVars, resVars, h2hVars, svc_call, svc_out,
                   svc_fetches, set_order>>

ThreadStep == \E t \in 1 .. MaxThreads : _get_historical_data(t)

NextThreads == ThreadStep \/ clear_cache

SpecThreads == InitThreads /\ [][NextThreads]_vars

\* C29: with report operations and clear_cache running concurrently on one
\* AnalyticsService, every call of _get_historical_data returns a complete
\* collection, one record for every year from START_SEASON to
\* CURRENT_SEASON, never None.
C29_AsStated ==
    \A t \in 1 .. MaxThreads :
        threads[t].pc = "returned" =>
            /\ threads[t].value # Idle
            /\ [i \in 1 .. Len(threads[t].value.data) |-> threads[t].value.data[i].season]
                  = [i \in 1 .. (CURRENT_SEASON - START_SEASON + 1) |-> START_SEASON + i - 1]

=============================================================================
